---- MODULE Spec2Model ----
(***************************************************************************)
(* Model of the divoom image codec core (src/c/decompiled_code.c): the     *)
(* decoder handle (stream pointer, length, cursor, palette count/capacity  *)
(* and palette buffer), the frame walkers (add_data, get_pic_data,         *)
(* pass_review, reset) and the block decoders behind decode_pic.           *)
(*                                                                         *)
(* Memory is modelled by value: an input buffer is one of Streams; the     *)
(* handle's input pointer is its index, data the buffer it points at.      *)
(* A read outside the buffer is undefined behaviour; every such read of    *)
(* one call returns the byte `pad`, chosen nondeterministically by the     *)
(* action.  A palette entry is one integer r + 256 g + 65536 b.            *)
(***************************************************************************)
EXTENDS Integers, Sequences, FiniteSets, TLC

\* ------------------------------------------------------------------ bounds

\* How many times add_data may be called on the handle.
MaxAddData == 1

\* How many times decode_pic may be called on the handle.
MaxDecode == 3

\* How many pixels of the caller's output buffer are recorded: the first
\* MaxPixels of each decoded frame.
MaxPixels == 8

\* How many leading pixels of an input frame carry a varying index; the
\* pixels after them carry index 0.
LeadPixels == 16

\* How many entries of the palette buffer are recorded: its first
\* MaxEntries.
MaxEntries == 512

\* ------------------------------------------------------------- arithmetic

Pow2 == [i \in 0..16 |-> 2^i]

U16 == 65536

Min(a, b) == IF a < b THEN a ELSE b

Max(a, b) == IF a > b THEN a ELSE b

\* (x << s) & 0xff for a byte x and a shift count already reduced by & 0x1f
ShlMask8(x, s) == IF s >= 8 THEN 0 ELSE (x * Pow2[s]) % 256

\* x >> s for a byte x and a shift count already reduced by & 0x1f
Shr8(x, s) == IF s >= 8 THEN 0 ELSE x \div Pow2[s]

\* x << s for a byte x and s <= 8
Shl8(x, s) == x * Pow2[s]

\* a | b
RECURSIVE BitOr(_, _)
BitOr(a, b) ==
  IF a = 0 THEN b
  ELSE IF b = 0 THEN a
  ELSE (IF a % 2 = 1 \/ b % 2 = 1 THEN 1 ELSE 0) + 2 * BitOr(a \div 2, b \div 2)

\* a & b
RECURSIVE BitAnd(_, _)
BitAnd(a, b) ==
  IF a = 0 \/ b = 0 THEN 0
  ELSE (IF a % 2 = 1 /\ b % 2 = 1 THEN 1 ELSE 0) + 2 * BitAnd(a \div 2, b \div 2)

\* gdivoom_image_bits_table: palette size -> bits per index (257 entries)
BitsTable ==
  [n \in 0..256 |->
     IF n <= 2 THEN 1
     ELSE IF n <= 4 THEN 2
     ELSE IF n <= 8 THEN 3
     ELSE IF n <= 16 THEN 4
     ELSE IF n <= 32 THEN 5
     ELSE IF n <= 64 THEN 6
     ELSE IF n <= 128 THEN 7
     ELSE 8]

\* ------------------------------------------------------------------ memory
\* An input buffer is held as its size and the pieces that generate its
\* bytes: literal bytes, the bytes of a palette, of a packed index stream
\* or of raw pixels.

NULL == 0

Rgb(r, g, b) == r + 256 * g + 65536 * b

\* byte t (0-based) of a palette: 128 + (seed + t) mod 128
PalByte(seed, t) == 128 + ((seed + t) % 128)

\* the colour a palette of that seed gives to entry j (0-based)
PalColour(seed, j) ==
  Rgb(PalByte(seed, 3 * j), PalByte(seed, 3 * j + 1), PalByte(seed, 3 * j + 2))

\* bit t (0-based, LSB-first) of the index stream in which pixel p carries
\* p % m if p < LeadPixels and 0 otherwise
IdxBit(t, bpi, m) ==
  IF t \div bpi < LeadPixels THEN (((t \div bpi) % m) \div Pow2[t % bpi]) % 2 ELSE 0

\* byte j (0-based) of that index stream
IdxByte(j, bpi, m) ==
  IdxBit(8 * j, bpi, m) + 2 * IdxBit(8 * j + 1, bpi, m)
  + 4 * IdxBit(8 * j + 2, bpi, m) + 8 * IdxBit(8 * j + 3, bpi, m)
  + 16 * IdxBit(8 * j + 4, bpi, m) + 32 * IdxBit(8 * j + 5, bpi, m)
  + 64 * IdxBit(8 * j + 6, bpi, m) + 128 * IdxBit(8 * j + 7, bpi, m)

\* byte t (0-based) of the pixels of a raw truecolor frame
RawByte(seed, t) == 128 + ((seed + 7 * (t + 1)) % 128)

Piece(gen, size, bytes, seed, bpi, m) ==
  [gen |-> gen, size |-> size, bytes |-> bytes, seed |-> seed, bpi |-> bpi, m |-> m]

Lit(bytes) == Piece("lit", Len(bytes), bytes, 0, 0, 0)

\* 3n palette bytes
PalBytes(n, seed) == Piece("pal", 3 * n, << >>, seed, 0, 0)

\* npix indices of bpi bits each, packed LSB-first
Body(npix, bpi, m) == Piece("idx", (npix * bpi + 7) \div 8, << >>, 0, bpi, m)

\* 3 bytes per pixel
RawBody(npix, seed) == Piece("raw", 3 * npix, << >>, seed, 0, 0)

\* byte i (0-based) of a piece
PieceByte(s, i) ==
  CASE s.gen = "lit" -> s.bytes[i + 1]
    [] s.gen = "pal" -> PalByte(s.seed, i)
    [] s.gen = "idx" -> IdxByte(i, s.bpi, s.m)
    [] OTHER -> RawByte(s.seed, i)

RECURSIVE Size(_)
Size(pieces) == IF pieces = << >> THEN 0 ELSE Head(pieces).size + Size(Tail(pieces))

\* byte i (0-based) of the pieces from the k-th on
RECURSIVE PiecesByte(_, _, _)
PiecesByte(pieces, k, i) ==
  IF i < pieces[k].size THEN PieceByte(pieces[k], i)
  ELSE PiecesByte(pieces, k + 1, i - pieces[k].size)

\* the buffer made of the pieces
Buffer(pieces) == [size |-> Size(pieces), pieces |-> pieces]

\* the first n bytes of the buffer
Truncated(buf, n) == [buf EXCEPT !.size = n]

\* *(byte *)(mem + i): byte i of the buffer mem; a read outside it yields pad
ByteAt(mem, i, pad) ==
  IF i >= 0 /\ i < mem.size THEN PiecesByte(mem.pieces, 1, i) ELSE pad

\* *(ushort *)(mem + i), little-endian
U16At(mem, i, pad) == ByteAt(mem, i, pad) + 256 * ByteAt(mem, i + 1, pad)

\* the 3-byte palette entry at mem + i
EntryAt(mem, i, pad) ==
  Rgb(ByteAt(mem, i, pad), ByteAt(mem, i + 1, pad), ByteAt(mem, i + 2, pad))

\* Values a read outside the input buffer may return.
PadBytes == {0, 170}

\* ------------------------------------------------------------ input data
\* The byte streams offered to add_data.  A frame is laid out as the
\* decoders read it: magic 0xAA, u16 declared length, u16 delay, kind byte,
\* then the palette size (one byte for the 16x16 kinds, u16 for the others),
\* the palette (3 bytes per entry) and the body.  A frame is a sequence of
\* pieces, the first one literal and holding the header.

Header(declLen, delay, kind) ==
  <<170, declLen % 256, (declLen \div 256) % 256, delay % 256, delay \div 256, kind>>

\* the frame f with its declared length field set to L
WithLen(f, L) ==
  [f EXCEPT ![1].bytes[2] = L % 256, ![1].bytes[3] = (L \div 256) % 256]

\* the frame f with its first byte set to b
WithMagic(f, b) == [f EXCEPT ![1].bytes[1] = b]

\* the frame f declaring its own length (mod 2^16)
Sized(f) == WithLen(f, Size(f))

\* a 16x16 frame (kinds 0x00, 0x01): one palette-size byte, 0 standing for 256
\* in a kind 0x00 frame
Frame16(kind, delay, n, seed, bpi, m) ==
  Sized(<<Lit(Header(0, delay, kind) \o <<n % 256>>), PalBytes(n, seed),
          Body(256, bpi, m)>>)

\* an indexed frame of the larger kinds: u16 palette size
FrameW(kind, delay, npix, n, seed, bpi, m) ==
  Sized(<<Lit(Header(0, delay, kind) \o <<n % 256, n \div 256>>), PalBytes(n, seed),
          Body(npix, bpi, m)>>)

\* a raw truecolor frame of the larger kinds
FrameRaw(kind, delay, npix, seed) ==
  Sized(<<Lit(Header(0, delay, kind) \o <<0, 0>>), RawBody(npix, seed)>>)

\* a frame whose payload the codec does not decode (word info, effect, ...)
FrameOpaque(kind, delay, nbytes) ==
  Sized(<<Lit(Header(0, delay, kind) \o [t \in 1..nbytes |-> (3 * t) % 256])>>)

\* Two palette frames and an empty continuation: kind 0x00 with 4 entries,
\* kind 0x01 adding 2, kind 0x01 adding none.
StreamPalette16 ==
  Buffer(Frame16(0, 100, 4, 10, 2, 4) \o Frame16(1, 100, 2, 50, 3, 6)
         \o Frame16(1, 100, 0, 0, 3, 6))

\* A frame that declares 42 bytes in a stream of 20.
StreamTruncated == Truncated(Buffer(Frame16(0, 100, 1, 200, 1, 1)), 20)

\* A 3-entry frame whose 2-bit indices run over 0..3, then 9 bytes that are
\* no frame.
StreamTrailing ==
  Buffer(Frame16(0, 50, 3, 30, 2, 4) \o <<Lit(<<1, 9, 0, 0, 0, 0, 0, 0, 0>>)>>)

\* A frame followed by a frame that declares length 0.
StreamZeroLen ==
  Buffer(Frame16(0, 0, 2, 60, 1, 2) \o WithLen(FrameOpaque(5, 0, 4), 0))

\* 200 entries, then a continuation of 100 more: 300 exceeds the 256 of
\* the 16x16 decoder.
StreamCapacity ==
  Buffer(Frame16(0, 10, 200, 0, 8, 200) \o Frame16(1, 10, 100, 90, 8, 256))

\* A continuation frame with no frame before it.
StreamNoPalette == Buffer(Frame16(1, 10, 2, 5, 1, 2) \o Frame16(0, 10, 2, 5, 1, 2))

\* Frames pass_review skips (kinds 5, 6, 7, 9, 10, high bit set, bad magic)
\* around frames it stops at.
StreamReview ==
  Buffer(FrameOpaque(5, 0, 6) \o FrameOpaque(6, 0, 3) \o FrameOpaque(140, 0, 5)
         \o Frame16(0, 0, 1, 99, 1, 1) \o FrameOpaque(9, 0, 2)
         \o WithMagic(FrameOpaque(7, 0, 4), 171) \o FrameOpaque(22, 0, 2)
         \o FrameOpaque(10, 0, 2))

StreamEmpty == Buffer(<< >>)

\* Kind 0x00 with 4 entries, then kind 0x01 adding 2.
StreamContinue == Buffer(Frame16(0, 100, 4, 10, 2, 4) \o Frame16(1, 100, 2, 50, 3, 6))

\* 16 entries (capacity 32), then a continuation of 20 more.
StreamOverCapacity ==
  Buffer(Frame16(0, 10, 16, 0, 4, 16) \o Frame16(1, 10, 20, 90, 6, 36))

\* A frame with a wrong magic byte, then kinds no decoder takes.
StreamBad ==
  Buffer(WithMagic(Frame16(0, 10, 2, 5, 1, 2), 171) \o FrameOpaque(7, 10, 4)
         \o FrameOpaque(22, 10, 4))

\* 32x32: a new palette of 2 (capacity 0x100), then kind 0x04 adding 255.
StreamBig ==
  Buffer(FrameW(3, 10, 1024, 2, 20, 1, 2) \o FrameW(4, 10, 1024, 255, 40, 8, 257))

\* 64x64: a new palette of 5 (capacity 0x80), kind 0x0D adding 200, kind
\* 0x10 adding 1.
Stream64 ==
  Buffer(FrameW(12, 10, 4096, 5, 20, 3, 5) \o FrameW(13, 10, 4096, 200, 40, 8, 205)
         \o FrameW(16, 10, 4096, 1, 70, 8, 206))

\* 128x128: a new palette of 2 (capacity 0x80), then kind 0x13 adding 127.
Stream128 ==
  Buffer(FrameW(20, 10, 16384, 2, 20, 1, 2) \o FrameW(19, 10, 16384, 127, 40, 8, 129))

\* 32x32: a raw frame, then a continuation.
StreamRawThenExtend ==
  Buffer(FrameRaw(2, 10, 1024, 3) \o FrameW(4, 10, 1024, 2, 40, 1, 2))

\* A kind 0x15 frame: one palette entry and four uniform 64x64 root nodes.
FrameFix ==
  Sized(<<Lit(Header(0, 10, 21) \o <<1, 0>>), PalBytes(1, 255),
          Lit(<<0, 0, 0, 0, 0, 0, 0, 0>>)>>)

\* One well-formed stream per frame kind: the frame of that kind last,
\* after a new-palette frame of its size where it continues a palette.
KindStreams16 ==
  << Buffer(Frame16(0, 10, 4, 10, 2, 4)),
     Buffer(Frame16(0, 10, 4, 10, 2, 4) \o Frame16(1, 10, 2, 50, 3, 6)) >>

KindStreams32 ==
  << Buffer(FrameRaw(2, 10, 1024, 3)),
     Buffer(FrameW(3, 10, 1024, 2, 20, 1, 2)),
     Buffer(FrameW(3, 10, 1024, 2, 20, 1, 2) \o FrameW(4, 10, 1024, 2, 40, 2, 4)) >>

KindStreams64 ==
  << Buffer(FrameRaw(11, 10, 4096, 3)),
     Buffer(FrameW(12, 10, 4096, 2, 20, 1, 2)),
     Buffer(FrameW(12, 10, 4096, 2, 20, 1, 2) \o FrameW(13, 10, 4096, 2, 40, 2, 4)),
     Buffer(FrameRaw(14, 10, 4096, 3)),
     Buffer(FrameW(15, 10, 4096, 2, 20, 1, 2)),
     Buffer(FrameW(15, 10, 4096, 2, 20, 1, 2) \o FrameW(16, 10, 4096, 2, 40, 2, 4)) >>

KindStreams128 ==
  << Buffer(FrameRaw(17, 10, 16384, 3)),
     Buffer(FrameW(18, 10, 16384, 2, 20, 1, 2)),
     Buffer(FrameW(20, 10, 16384, 2, 20, 1, 2) \o FrameW(19, 10, 16384, 2, 40, 2, 4)),
     Buffer(FrameW(20, 10, 16384, 2, 20, 1, 2)),
     Buffer(FrameFix) >>

\* Frames of kinds no decoder is listed for.
KindStreamsOther ==
  << Buffer(FrameOpaque(5, 10, 8)), Buffer(FrameOpaque(8, 10, 8)),
     Buffer(FrameOpaque(22, 10, 8)), Buffer(FrameOpaque(127, 10, 8)) >>

\* 32x32: a new palette of 0xFF00 entries.
StreamGiant == Buffer(FrameW(3, 10, 1024, 65280, 0, 8, 256))

\* Frames whose kind byte has the high bit set: 0x80, 0x00 then 0x81, 0x83,
\* 0x8B, 0x8C then 0x8D, 0x94.
KindStreamsHigh ==
  << Buffer(Frame16(128, 10, 4, 10, 2, 4)),
     Buffer(Frame16(0, 10, 4, 10, 2, 4) \o Frame16(129, 10, 2, 50, 3, 6)),
     Buffer(FrameW(131, 10, 1024, 2, 20, 1, 2)),
     Buffer(FrameRaw(139, 10, 4096, 3)),
     Buffer(FrameW(140, 10, 4096, 2, 20, 1, 2) \o FrameW(141, 10, 4096, 2, 40, 2, 4)),
     Buffer(FrameW(148, 10, 16384, 2, 20, 1, 2)) >>

\* Streams of frames of several sizes: a word-info frame before two 16x16
\* frames; 16x16 then 32x32; 32x32 then 16x16; 64x64 then 32x32 then 16x16.
MixedStreams ==
  << Buffer(FrameOpaque(5, 0, 30) \o Frame16(0, 100, 4, 10, 2, 4)
            \o Frame16(1, 100, 2, 50, 3, 6)),
     Buffer(Frame16(0, 10, 4, 10, 2, 4) \o FrameW(3, 10, 1024, 4, 20, 2, 4)),
     Buffer(FrameW(3, 10, 1024, 4, 20, 2, 4) \o Frame16(0, 10, 4, 10, 2, 4)),
     Buffer(FrameW(12, 10, 4096, 4, 20, 2, 4) \o FrameW(3, 10, 1024, 4, 30, 2, 4)
            \o Frame16(0, 10, 4, 10, 2, 4)) >>

\* A raw truecolor frame, then a continuation frame, then a frame with a new
\* palette, for the 32x32, the 64x64 and the 128x128 decoder; and a 16x16
\* frame with a new palette, a raw 32x32 frame and a 16x16 continuation.
RawStreams ==
  << Buffer(FrameRaw(2, 10, 1024, 3) \o FrameW(4, 10, 1024, 2, 40, 1, 2)
            \o FrameW(3, 10, 1024, 2, 20, 1, 2)),
     Buffer(FrameRaw(11, 10, 4096, 3) \o FrameW(13, 10, 4096, 2, 40, 1, 2)
            \o FrameW(12, 10, 4096, 2, 20, 1, 2)),
     Buffer(FrameRaw(14, 10, 4096, 3) \o FrameW(16, 10, 4096, 2, 40, 1, 2)
            \o FrameW(15, 10, 4096, 2, 20, 1, 2)),
     Buffer(FrameRaw(17, 10, 16384, 3) \o FrameW(19, 10, 16384, 2, 40, 1, 2)
            \o FrameW(20, 10, 16384, 2, 20, 1, 2)),
     Buffer(Frame16(0, 10, 4, 10, 2, 4) \o FrameRaw(2, 10, 1024, 3)
            \o Frame16(1, 10, 2, 50, 3, 6)) >>

\* The input buffers (index = the pointer value held by a handle).
Streams ==
  << StreamPalette16, StreamTruncated, StreamTrailing, StreamZeroLen,
     StreamCapacity, StreamNoPalette, StreamReview, StreamEmpty,
     StreamContinue, StreamOverCapacity, StreamBad, StreamBig, Stream64, Stream128,
     StreamRawThenExtend >>
  \o KindStreams16 \o KindStreams32 \o KindStreams64 \o KindStreams128
  \o KindStreamsOther \o << StreamGiant >> \o KindStreamsHigh \o MixedStreams
  \o RawStreams

\* The buffers of the frame-walking runs, of the palette runs and of the
\* frame-kind runs
WalkStreams == 1..8

PaletteStreams == 9..15

KindStreams == 16..(Len(Streams) - Len(MixedStreams) - Len(RawStreams))

\* The buffers of the whole-stream runs
AllStreams == {4, 8, 9, 10, 11, 14}
                \cup ((Len(Streams) - Len(MixedStreams) - Len(RawStreams) + 1)
                        ..(Len(Streams) - Len(RawStreams)))

\* The buffers of the raw-frame runs
RawRuns == (Len(Streams) - Len(RawStreams) + 1)..Len(Streams)


\* -------------------------------------------------------------------- state

VARIABLES
  input,     \* handle + 0x10: the input buffer (index into Streams, or NULL)
  data,      \* the buffer at handle + 0x10
  len,       \* handle + 4: stream length
  cursor,    \* handle + 0xc: offset of the next frame
  palCount,  \* handle + 0: u16 palette count
  palCap,    \* handle + 2: u16 palette capacity
  palAlloc,  \* handle + 0x20 is not NULL
  palette,   \* the initialised entries of the buffer at handle + 0x20 (the
             \* first MaxEntries of them)
  out,       \* what the last call returned and wrote for its caller
  hung,      \* the last call never returned
  nAdd,      \* add_data calls made so far
  nDecode,   \* decode_pic, decode_all and decode_handle calls made so far
  frames,    \* the frame count the last add_data returned
  walk       \* get_pic_data results since the cursor was set to 0, if no
             \* other call came between (-1 otherwise)

vars ==
  <<input, data, len, cursor, palCount, palCap, palAlloc, palette, out, hung, nAdd,
    nDecode, frames, walk>>

handle == <<input, data, len, cursor, palCount, palCap, palAlloc, palette>>

NoPixels == << >>

Out(op, ret, frame) ==
  [op |-> op, ret |-> ret, frame |-> frame, pixels |-> NoPixels, idxOver |-> FALSE,
   err |-> 0]

\* divoom_image_decode_creat_handle: every field zero
Init ==
  /\ input = NULL
  /\ data = Buffer(<< >>)
  /\ len = 0
  /\ cursor = 0
  /\ palCount = 0
  /\ palCap = 0
  /\ palAlloc = FALSE
  /\ palette = << >>
  /\ out = Out("creat_handle", 0, -1)
  /\ hung = FALSE
  /\ nAdd = 0
  /\ nDecode = 0
  /\ frames = 0
  /\ walk = -1

\* ------------------------------------------------------------ frame walkers

DIVERGES == -1

\* The counting loop of add_data from frameOffset with validFrameCount frames
\* counted; DIVERGES when the loop never ends.
RECURSIVE CountFrames(_, _, _, _, _)
CountFrames(mem, inputLength, frameOffset, validFrameCount, pad) ==
  IF ByteAt(mem, frameOffset, pad) # 170 THEN validFrameCount
  ELSE LET next == U16At(mem, frameOffset + 1, pad) + frameOffset
       IN IF next = frameOffset THEN DIVERGES
          ELSE IF next < inputLength
               THEN CountFrames(mem, inputLength, next, validFrameCount + 1, pad)
               ELSE validFrameCount + 1

\* divoom_image_decode_add_data(handle, inputData, inputLength, copySourceBuffer):
\* with or without the copy, handle + 0x10 points at the inputLength bytes
\* of inputData (the copy at handle + 0x18 is not modelled further).
AddData(p, copySourceBuffer, pad) ==
  LET inputData == Streams[p]
      inputLength == inputData.size
      count == IF inputLength < 1 THEN 0
               ELSE CountFrames(inputData, inputLength, 0, 0, pad)
  IN /\ ~hung
     /\ nAdd < MaxAddData
     /\ nAdd' = nAdd + 1
     /\ len' = inputLength
     /\ cursor' = 0
     /\ input' = p
     /\ data' = inputData
     /\ hung' = (count = DIVERGES)
     /\ out' = Out("add_data", count, -1)
     /\ frames' = count
     /\ walk' = 0
     /\ UNCHANGED <<palCount, palCap, palAlloc, palette, nDecode>>

\* divoom_image_decode_get_pic_data(handle, &frameLength, &frameDelay)
GetPicData(pad) ==
  /\ ~hung
  /\ IF cursor < len
     THEN /\ cursor' = cursor + U16At(data, cursor + 1, pad)
          /\ out' = Out("get_pic_data", 1, cursor)
          /\ walk' = IF walk >= 0 THEN walk + 1 ELSE -1
     ELSE /\ cursor' = cursor
          /\ out' = Out("get_pic_data", 0, -1)
          /\ walk' = walk
  /\ UNCHANGED <<input, data, len, palCount, palCap, palAlloc, palette, hung, nAdd, nDecode, frames>>

\* divoom_image_decode_reset(handle)
Reset ==
  /\ ~hung
  /\ cursor' = 0
  /\ out' = Out("reset", 0, -1)
  /\ walk' = 0
  /\ UNCHANGED <<input, data, len, palCount, palCap, palAlloc, palette, hung, nAdd, nDecode, frames>>

\* the same without the kinds whose high bit is set
ReviewSkipsLow(frameFormatType) == frameFormatType \in {5, 6, 7, 9, 10}

\* the frame kinds pass_review steps over: bits 5, 6, 7, 9, 10 of 0x6e0
ReviewSkips(frameFormatType) ==
  \/ frameFormatType \in {5, 6, 7, 9, 10}
  \/ frameFormatType >= 128

\* The loop of pass_review from currentOffset: the offset it leaves in the
\* cursor, or DIVERGES - offset when it spins forever at offset.
RECURSIVE ReviewFrom(_, _, _, _)
ReviewFrom(mem, streamLen, currentOffset, pad) ==
  IF ByteAt(mem, currentOffset, pad) = 170
     /\ ~ReviewSkips(ByteAt(mem, currentOffset + 5, pad))
  THEN currentOffset
  ELSE LET next == U16At(mem, currentOffset + 1, pad) + currentOffset
       IN IF next = currentOffset THEN DIVERGES - currentOffset
          ELSE IF next < streamLen THEN ReviewFrom(mem, streamLen, next, pad)
          ELSE next

\* divoom_image_decode_decode_pass_review(handle)
PassReview(pad) ==
  LET stop == IF cursor < len THEN ReviewFrom(data, len, cursor, pad) ELSE cursor
  IN /\ ~hung
     /\ hung' = (stop <= DIVERGES)
     /\ cursor' = IF stop <= DIVERGES THEN DIVERGES - stop ELSE stop
     /\ out' = Out("pass_review", 0, -1)
     /\ walk' = -1
     /\ UNCHANGED <<input, data, len, palCount, palCap, palAlloc, palette, nAdd, nDecode, frames>>

\* ---------------------------------------------------------- block decoders

\* Values an uninitialised palette entry may hold.
JunkColours == {0, 16777215}

\* Values a read of gdivoom_image_bits_table past its 257 entries may return.
OobBits == {0, 8}

\* gdivoom_image_bits_table[n]
Bits(n, oobBits) == IF n <= 256 THEN BitsTable[n] ELSE oobBits

\* The inline reader without its two-byte branch
ReadIndexOneByte(mem, bitstream, bitCursor, bitsPerIndex, pad) ==
  LET bitOffset == bitCursor % 8
      totalBits == bitOffset + bitsPerIndex
      b0 == ByteAt(mem, bitstream + (bitCursor \div 8), pad)
  IN Shr8(ShlMask8(b0, (8 - totalBits) % 32), ((8 - totalBits) + bitOffset) % 32)

\* The inline index reader of the block decoders: the bitsPerIndex bits at
\* bit offset bitCursor of the bitstream at mem + bitstream.
ReadIndex(mem, bitstream, bitCursor, bitsPerIndex, pad) ==
  LET bitOffset == bitCursor % 8
      byteOffset == bitCursor \div 8
      totalBits == bitOffset + bitsPerIndex
      b0 == ByteAt(mem, bitstream + byteOffset, pad)
      b1 == ByteAt(mem, bitstream + byteOffset + 1, pad)
  IN IF totalBits < 9
     THEN Shr8(ShlMask8(b0, (8 - totalBits) % 32), ((8 - totalBits) + bitOffset) % 32)
     ELSE BitOr(Shl8(Shr8(ShlMask8(b1, (16 - totalBits) % 32), (16 - totalBits) % 32),
                     (8 - bitOffset) % 32),
                Shr8(b0, bitOffset))

\* The palette indices of the npix pixels of an indexed frame
ReadIndices(mem, bitstream, bitsPerIndex, npix, pad) ==
  [q \in 1..npix |-> ReadIndex(mem, bitstream, (q - 1) * bitsPerIndex, bitsPerIndex, pad)]

\* The pixel loop: each index looked up in the palette buffer; an entry the
\* buffer never received holds junk.
Lookup(pal, indices, junk) ==
  [q \in DOMAIN indices |->
     IF indices[q] < Len(pal) THEN pal[indices[q] + 1] ELSE junk]

\* memcpy(pixelBuffer, frameData + 8, 3 * npix)
RawPixels(mem, frameData, npix, pad) ==
  [q \in 1..npix |-> EntryAt(mem, frameData + 8 + 3 * (q - 1), pad)]

\* A reset that copies its n entries from one entry further on
ResetEntriesShifted(old, n, mem, src, pad) ==
  [j \in 1..Min(Max(n, Len(old)), MaxEntries) |->
     IF j <= n THEN EntryAt(mem, src + 3 * j, pad) ELSE old[j]]

\* The copy loops of a palette reset: n entries from mem + src into a buffer
\* that held old (empty when freshly allocated).
ResetEntries(old, n, mem, src, pad) ==
  [j \in 1..Min(Max(n, Len(old)), MaxEntries) |->
     IF j <= n THEN EntryAt(mem, src + 3 * (j - 1), pad) ELSE old[j]]

\* A continuation that writes its k entries at index 0 of the buffer
AppendEntriesAtStart(old, count, k, mem, src, pad) ==
  [j \in 1..Min(Max(Len(old), k), MaxEntries) |->
     IF j <= k THEN EntryAt(mem, src + 3 * (j - 1), pad) ELSE old[j]]

\* The copy loops of a palette continuation: k entries from mem + src written
\* at index (count + i) & 0xffff of a buffer that held old.
AppendEntries(old, count, k, mem, src, pad) ==
  [j \in 1..Min(Max(Len(old), Min(count + k, U16)), MaxEntries) |->
     IF ((j - 1 - count) % U16) < k
     THEN EntryAt(mem, src + 3 * ((j - 1 - count) % U16), pad)
     ELSE old[j]]

\* What a decoder hands back: success flag, *bytesConsumed, the palette
\* fields of the handle, the pixels written and whether an index at or above
\* the palette count was read; and what the call depended on: the number of
\* bytes of the frame it may have read (reach), whether it read an
\* uninitialised palette entry (junkRead), read the bits table past its end
\* (tableOob) or called malloc with a checked result (grew).
Decoded(ok, consumed, count, cap, alloc, pal, pixels, idxOver, reach, junkRead, tableOob, grew) ==
  [ok |-> ok, consumed |-> consumed, count |-> count, cap |-> cap, alloc |-> alloc,
   pal |-> pal, pixels |-> pixels, idxOver |-> idxOver, reach |-> reach,
   junkRead |-> junkRead, tableOob |-> tableOob, grew |-> grew, err |-> 0]

\* An error return that also clears the palette count
FailedClearing(st, errorCode) ==
  [Decoded(FALSE, 0, 0, st.cap, st.alloc, st.pal, NoPixels, FALSE, 8, FALSE, FALSE,
           FALSE) EXCEPT !.err = errorCode]

\* An error return: printf of errorCode and return 0, nothing written
Failed(st, errorCode) ==
  [Decoded(FALSE, 0, st.count, st.cap, st.alloc, st.pal, NoPixels, FALSE, 8, FALSE, FALSE,
           FALSE) EXCEPT !.err = errorCode]

\* The error return of a continuation whose checked malloc failed
FailedMalloc(st, errorCode) ==
  [Decoded(FALSE, 0, st.count, st.cap, st.alloc, st.pal, NoPixels, FALSE, 8, FALSE, FALSE,
           TRUE) EXCEPT !.err = errorCode]

\* An indexed frame decoded with the palette (count, cap, pal) in place
Indexed(mem, frameData, bitstreamOffset, palEnd, bitsPerIndex, npix, count, cap, pal, pad, junk, grew) ==
  LET indices == ReadIndices(mem, frameData + bitstreamOffset, bitsPerIndex,
                             Min(npix, MaxPixels), pad)
  IN Decoded(TRUE, bitstreamOffset + bitsPerIndex * (npix \div 8), count, cap, TRUE, pal,
             Lookup(pal, indices, junk),
             \E q \in DOMAIN indices : indices[q] >= count,
             Max(palEnd, bitstreamOffset + bitsPerIndex * (npix \div 8) + 1),
             \E q \in DOMAIN indices : indices[q] >= Len(pal),
             count > 256, grew)

\* A raw truecolor frame that leaves the palette in place
RawKeeping(mem, frameData, npix, st, pad) ==
  Decoded(TRUE, 24 * (npix \div 8) + 8, st.count, st.cap, st.alloc, st.pal,
          RawPixels(mem, frameData, Min(npix, MaxPixels), pad), FALSE, 24 * (npix \div 8) + 8, FALSE, FALSE,
          FALSE)

\* A raw truecolor frame: the palette is freed, count and capacity stay
Raw(mem, frameData, npix, st, pad) ==
  Decoded(TRUE, 24 * (npix \div 8) + 8, st.count, st.cap, FALSE, << >>,
          RawPixels(mem, frameData, Min(npix, MaxPixels), pad), FALSE, 24 * (npix \div 8) + 8, FALSE, FALSE,
          FALSE)

\* divoom_image_decode_decode_one(handle, frameData, pixelBuffer, &consumed)
DecodeOne(mem, frameData, st, pad, junk, oobBits) ==
  LET frameFormatType == ByteAt(mem, frameData + 5, pad)
      b6 == ByteAt(mem, frameData + 6, pad)
      n == IF b6 # 0 THEN b6 ELSE 256
      newCap == IF n > 15 THEN Min(2 * n, 256) ELSE 64
      total == st.count + b6
  IN IF ByteAt(mem, frameData, pad) # 170 THEN Failed(st, 5501)
     ELSE IF frameFormatType > 1 THEN Failed(st, 5506)
     ELSE IF frameFormatType = 0
     THEN Indexed(mem, frameData, 3 * n + 7, 3 * n + 7, Bits(n, oobBits), 256, n, newCap,
                  ResetEntries(<< >>, n, mem, frameData + 7, pad), pad, junk, FALSE)
     ELSE IF ~st.alloc THEN Failed(st, 5518)
     ELSE IF st.cap < total THEN Failed(st, 5524)
     ELSE Indexed(mem, frameData, 3 * b6 + 7, 3 * b6 + 7, Bits(total, oobBits), 256, total,
                  st.cap, AppendEntries(st.pal, st.count, b6, mem, frameData + 7, pad),
                  pad, junk, FALSE)

\* The palette reset of the wide decoders: count := n, and a new buffer of
\* allocSize entries unless the one in place already has that capacity.
ResetWide(mem, frameData, npix, n, allocSize, st, pad, junk, oobBits) ==
  LET fresh == ~st.alloc \/ st.cap # allocSize
      newCap == IF fresh THEN allocSize % U16 ELSE st.cap
      old == IF fresh THEN << >> ELSE st.pal
      bitstreamOffset == (3 * n + 8) % U16
  IN Indexed(mem, frameData, bitstreamOffset, 3 * n + 8, Bits(n, oobBits), npix, n,
             newCap, ResetEntries(old, n, mem, frameData + 8, pad), pad, junk, FALSE)

\* A capacity of exactly count + k entries
GrownCapacityExact(count, k) == (count + k) % U16

\* The capacity stored when a continuation reallocates:
\* (ushort)(count + k + 0x100)
GrownCapacity(count, k) == (count + k + 256) % U16

\* The palette continuation of the wide decoders: a buffer of
\* count + k + 0x100 entries when count + k exceeds the capacity.
ExtendWide(mem, frameData, npix, st, pad, junk, oobBits, mallocOk, errNoPalette, errNoMemory) ==
  LET k == U16At(mem, frameData + 6, pad)
      total == k + st.count
      grow == st.cap < total
      newCap == IF grow THEN GrownCapacity(st.count, k) ELSE st.cap
      old == IF grow THEN SubSeq(st.pal, 1, Min(st.count, Len(st.pal))) ELSE st.pal
      newCount == total % U16
      bitstreamOffset == (3 * k + 8) % U16
  IN IF ~st.alloc THEN Failed(st, errNoPalette)
     ELSE IF grow /\ ~mallocOk THEN FailedMalloc(st, errNoMemory)
     ELSE Indexed(mem, frameData, bitstreamOffset, 3 * k + 8, Bits(newCount, oobBits),
                  npix, newCount, newCap,
                  AppendEntries(old, st.count, k, mem, frameData + 8, pad), pad, junk, grow)

\* divoom_image_decode_decode_one_big(handle, frameData, pixelBuffer, &consumed)
DecodeOneBig(mem, frameData, st, pad, junk, oobBits, mallocOk) ==
  LET kind == ByteAt(mem, frameData + 5, pad) % 128
      n == U16At(mem, frameData + 6, pad)
  IN IF ByteAt(mem, frameData, pad) # 170 THEN Failed(st, 5344)
     ELSE IF kind \notin {2, 3, 4} THEN Failed(st, 5350)
     ELSE IF kind = 4
     THEN ExtendWide(mem, frameData, 1024, st, pad, junk, oobBits, mallocOk, 5374, 5385)
     ELSE IF kind = 2 THEN Raw(mem, frameData, 1024, st, pad)
     ELSE ResetWide(mem, frameData, 1024, n, IF n > 127 THEN n + 256 ELSE 256, st, pad, junk,
                    oobBits)

\* divoom_image_decode_decode_one_64(handle, frameData, pixelBuffer, &consumed)
DecodeOne64(mem, frameData, st, pad, junk, oobBits, mallocOk) ==
  LET kind == ByteAt(mem, frameData + 5, pad) % 128
      n == U16At(mem, frameData + 6, pad)
  IN IF ByteAt(mem, frameData, pad) # 170 THEN Failed(st, 4242)
     ELSE IF kind < 11 \/ kind > 16 THEN Failed(st, 4249)
     ELSE IF kind \in {11, 14} THEN Raw(mem, frameData, 4096, st, pad)
     ELSE IF kind \in {13, 16}
     THEN ExtendWide(mem, frameData, 4096, st, pad, junk, oobBits, mallocOk, 4282, 4293)
     ELSE ResetWide(mem, frameData, 4096, n, IF n < 129 THEN 128 ELSE n, st, pad, junk,
                    oobBits)

\* divoom_image_decode_decode_one_128(handle, frameData, pixelBuffer, &consumed)
DecodeOne128(mem, frameData, st, pad, junk, oobBits, mallocOk) ==
  LET kind == ByteAt(mem, frameData + 5, pad) % 128
      n == U16At(mem, frameData + 6, pad)
  IN IF ByteAt(mem, frameData, pad) # 170 THEN Failed(st, 4401)
     ELSE IF kind \notin {17, 19, 20} THEN Failed(st, 4407)
     ELSE IF kind = 19
     THEN ExtendWide(mem, frameData, 16384, st, pad, junk, oobBits, mallocOk, 4440, 4451)
     ELSE IF kind = 17 THEN Raw(mem, frameData, 16384, st, pad)
     ELSE ResetWide(mem, frameData, 16384, n, IF n < 129 THEN 128 ELSE n, st, pad, junk,
                    oobBits)

\* The dispatch of decode_pic on the low 7 bits of the kind byte: the
\* decoder's result and the size code a success is reported with.
Dispatch(mem, frameData, st, pad, junk, oobBits, mallocOk) ==
  LET kind == ByteAt(mem, frameData + 5, pad) % 128
  IN IF kind < 2
     THEN [size |-> 16, r |-> DecodeOne(mem, frameData, st, pad, junk, oobBits)]
     ELSE IF kind - 2 < 3
     THEN [size |-> 32, r |-> DecodeOneBig(mem, frameData, st, pad, junk, oobBits, mallocOk)]
     ELSE IF kind >= 11 /\ kind - 11 < 6
     THEN [size |-> 64, r |-> DecodeOne64(mem, frameData, st, pad, junk, oobBits, mallocOk)]
     ELSE IF kind \in {18, 19} \/ kind \in {17, 21} \/ kind = 20
     THEN [size |-> 128, r |-> DecodeOne128(mem, frameData, st, pad, junk, oobBits, mallocOk)]
     ELSE [size |-> 0, r |-> Failed(st, 0)]

\* The palette fields of the handle, as the decoders receive them
PaletteState == [count |-> palCount, cap |-> palCap, alloc |-> palAlloc, pal |-> palette]

\* The unspecified values one decode_pic call may observe, as <<pad, junk,
\* oobBits, mallocOk>>: a value is varied only if the call, run with the
\* first value of each, reads it.
DefaultEnv == <<0, 0, 0, TRUE>>

\* the values to vary for a call d0 that read pad outside the buffer
Envs(d0, pad) ==
  {pad} \X (IF d0.r.junkRead \/ d0.r.tableOob THEN JunkColours ELSE {0})
        \X (IF d0.r.tableOob THEN OobBits ELSE {0})
        \X (IF d0.r.grew THEN BOOLEAN ELSE {TRUE})

DecodePicEnvs ==
  IF cursor < len
  THEN LET d0 == Dispatch(data, cursor, PaletteState, 0, 0, 0, TRUE)
       IN IF cursor + d0.r.reach > data.size
          THEN UNION {Envs(Dispatch(data, cursor, PaletteState, pad, 0, 0, TRUE), pad) :
                        pad \in PadBytes}
          ELSE Envs(d0, 0)
  ELSE {DefaultEnv}

\* divoom_image_decode_decode_pic(handle, pixelBuffer, userContext)
DecodePic(env) ==
  /\ ~hung
  /\ nDecode < MaxDecode
  /\ nDecode' = nDecode + 1
  /\ IF cursor < len
     THEN LET d == Dispatch(data, cursor, PaletteState, env[1], env[2], env[3], env[4])
          IN /\ cursor' = cursor + d.r.consumed
             /\ palCount' = d.r.count
             /\ palCap' = d.r.cap
             /\ palAlloc' = d.r.alloc
             /\ palette' = d.r.pal
             /\ out' = [op |-> "decode_pic", ret |-> IF d.r.ok THEN d.size ELSE 0,
                        frame |-> cursor, pixels |-> d.r.pixels, idxOver |-> d.r.idxOver,
                        err |-> d.r.err]
     ELSE /\ out' = [Out("decode_pic", 0, -1) EXCEPT !.err = 6434]
          /\ UNCHANGED <<cursor, palCount, palCap, palAlloc, palette>>
  /\ walk' = -1
  /\ UNCHANGED <<input, data, len, hung, nAdd, frames>>

\* -------------------------------------------------------------- behaviours

Next ==
  \/ \E p \in WalkStreams, copySourceBuffer \in BOOLEAN, pad \in PadBytes :
       AddData(p, copySourceBuffer, pad)
  \/ \E pad \in PadBytes : GetPicData(pad)
  \/ \E env \in DecodePicEnvs : DecodePic(env)
  \/ \E pad \in PadBytes : PassReview(pad)
  \/ Reset

Spec == Init /\ [][Next]_vars

\* The same calls on the buffers of the palette runs
NextPalette ==
  \/ \E p \in PaletteStreams, copySourceBuffer \in BOOLEAN, pad \in PadBytes :
       AddData(p, copySourceBuffer, pad)
  \/ \E pad \in PadBytes : GetPicData(pad)
  \/ \E env \in DecodePicEnvs : DecodePic(env)
  \/ \E pad \in PadBytes : PassReview(pad)
  \/ Reset

SpecPalette == Init /\ [][NextPalette]_vars

\* The same calls on the buffers of the frame-kind runs
NextKinds ==
  \/ \E p \in KindStreams, copySourceBuffer \in BOOLEAN, pad \in PadBytes :
       AddData(p, copySourceBuffer, pad)
  \/ \E pad \in PadBytes : GetPicData(pad)
  \/ \E env \in DecodePicEnvs : DecodePic(env)
  \/ \E pad \in PadBytes : PassReview(pad)
  \/ Reset

SpecKinds == Init /\ [][NextKinds]_vars

\* The same calls on the buffers of the raw-frame runs
NextRaw ==
  \/ \E p \in RawRuns, copySourceBuffer \in BOOLEAN, pad \in PadBytes :
       AddData(p, copySourceBuffer, pad)
  \/ \E pad \in PadBytes : GetPicData(pad)
  \/ \E env \in DecodePicEnvs : DecodePic(env)
  \/ \E pad \in PadBytes : PassReview(pad)
  \/ Reset

SpecRaw == Init /\ [][NextRaw]_vars

\* ------------------------------------------------------------------ claims

\* The frame header at offset c of the handle's buffer, read in bounds
MagicAt(c) == ByteAt(data, c, 0)

DeclaredAt(c) == U16At(data, c + 1, 0)

KindAt(c) == ByteAt(data, c + 5, 0)

\* A step that is one call of the named operation
Called(op) == out'.op = op /\ vars' # vars

\* C1: after any sequence of add_data, get_pic_data, decode_pic,
\* pass_review and reset calls the cursor never exceeds the stream length.
C1_CursorWithinLen == cursor <= len

\* C2: every get_pic_data call that returns a frame leaves the cursor
\* strictly greater than before the call and not greater than the stream
\* length.
C2_GetPicDataAdvances ==
  [][(Called("get_pic_data") /\ out'.ret # 0) => (cursor' > cursor /\ cursor' <= len')]_vars

\* C3: the frame count returned by add_data equals the number of non-null
\* results of get_pic_data called repeatedly from cursor 0 until it returns
\* null.
C3_CountEqualsWalk ==
  (out.op = "get_pic_data" /\ out.ret = 0 /\ walk >= 0) => walk = frames

\* C4: when the frame at the cursor declares a length that exceeds the
\* remaining bytes, fetching or decoding it reports failure and leaves the
\* cursor at the start of the truncated frame.
C4_TruncatedRejected ==
  [][((Called("get_pic_data") \/ Called("decode_pic"))
      /\ cursor < len /\ MagicAt(cursor) = 170 /\ cursor + DeclaredAt(cursor) > len)
     => (out'.ret = 0 /\ cursor' = cursor)]_vars

\* C5: in every block decoder an index read from the frame body that is >=
\* the palette count causes the frame to be rejected.
C5_IndexBelowCount == (out.op = "decode_pic" /\ out.idxOver) => out.ret = 0

\* C6: after any sequence of frame decodes the stored palette count is <=
\* the stored palette capacity.
C6_CountWithinCapacity == palCount <= palCap

\* The error codes printed when the malloc of a continuation fails
NoMemoryCodes == {5385, 4293, 4451}

\* The handle's cursor and palette are what they were before the step
HandleKept ==
  /\ cursor' = cursor
  /\ palCount' = palCount
  /\ palCap' = palCap
  /\ palAlloc' = palAlloc
  /\ palette' = palette

\* The canvas size decode_pic reports for the decoder that takes kind k
DecoderSize(k) ==
  IF k = 4 THEN 32 ELSE IF k \in {13, 16} THEN 64 ELSE 128

\* A decode_pic step on a frame whose header and palette lie within the
\* buffer, with a palette in place that has no room for the frame's k entries
Overflowing(kinds, k) ==
  /\ Called("decode_pic")
  /\ cursor < len
  /\ MagicAt(cursor) = 170
  /\ KindAt(cursor) % 128 \in kinds
  /\ cursor + 8 + 3 * k <= len
  /\ palAlloc
  /\ palCap < palCount + k

\* The palette after the step holds the entries it held before and then the
\* k entries of the frame at the cursor, the first of them at offset first
\* of the frame (indices are taken mod 2^16)
Appended(k, first) ==
  /\ \A j \in 1..Min(palCount, MaxEntries) :
       ((j - 1 - palCount) % U16 >= k) => palette'[j] = palette[j]
  /\ \A i \in 0..(k - 1) :
       ((palCount + i) % U16 < MaxEntries)
       => palette'[((palCount + i) % U16) + 1] = EntryAt(data, cursor + first + 3 * i, 0)

StreamBit(base, t) == (ByteAt(data, base + (t \div 8), 0) \div Pow2[t % 8]) % 2

\* the value of bits b..w-1 of the q-th (0-based) w-bit index, weighted
RECURSIVE IndexBits(_, _, _, _)
IndexBits(base, q, w, b) ==
  IF b >= w THEN 0
  ELSE StreamBit(base, q * w + b) * Pow2[b] + IndexBits(base, q, w, b + 1)

\* C8: decoding a kind 0x00 frame carrying n entries and then a kind 0x01
\* frame carrying k entries, n + k within capacity, leaves count = n + k,
\* entries 0..n-1 unchanged and the k new entries at n..n+k-1, and reads the
\* second frame's pixels with the bits-per-index of n + k: a pixel whose
\* index is below n + k is the palette entry of that index.
C8_ContinuationAfterReset ==
  [][LET first == out.frame
         b == ByteAt(data, first + 6, 0)
         n == IF b = 0 THEN 256 ELSE b
         k == ByteAt(data, cursor + 6, 0)
         w == BitsTable[n + k]
         body == cursor + 7 + 3 * k
     IN (/\ out.op = "decode_pic"
         /\ out.ret = 16
         /\ KindAt(first) = 0
         /\ Called("decode_pic")
         /\ cursor < len
         /\ MagicAt(cursor) = 170
         /\ KindAt(cursor) = 1
         /\ n + k <= palCap
         /\ body + 32 * w <= len)
        => (/\ out'.ret = 16
            /\ palCount' = n + k
            /\ \A j \in 1..n : palette'[j] = palette[j]
            /\ \A i \in 0..(k - 1) :
                 palette'[n + i + 1] = EntryAt(data, cursor + 7 + 3 * i, 0)
            /\ Len(out'.pixels) = Min(256, MaxPixels)
            /\ \A q \in 1..Len(out'.pixels) :
                 LET idx == IndexBits(body, q - 1, w, 0)
                 IN idx < n + k => out'.pixels[q] = palette'[idx + 1])]_vars

\* The second frame of StreamContinue decoded right after the first: six
\* entries, and pixel 5 shows the second of the two new ones.
C8_SixEntries ==
  /\ input = 9
  /\ nDecode = 2
  /\ out.op = "decode_pic"
  /\ out.ret = 16
  /\ KindAt(out.frame) = 1
  /\ palCount = 6
  /\ palette[4] = PalColour(10, 3)
  /\ palette[6] = PalColour(50, 1)
  /\ out.pixels[6] = PalColour(50, 1)

\* C9: whenever decode_pic reports failure (size code 0) the cursor, the
\* palette count, the palette capacity and the palette entries are what
\* they were before the call.
C9_FailureKeepsHandle ==
  [][(Called("decode_pic") /\ out'.ret = 0) => HandleKept]_vars

\* A continuation was refused for lack of memory, or for lack of capacity,
\* with a palette in place.
C9_FailedWithPalette ==
  /\ out.op = "decode_pic"
  /\ out.ret = 0
  /\ out.err \in {5385, 5524}
  /\ palCount > 0
  /\ Len(palette) = palCount

\* The canvas size the kind table of the specification gives kind k
\* (low 7 bits of the kind byte); 0 for a kind it does not list.
TableSize(k) ==
  IF k \in {0, 1} THEN 16
  ELSE IF k \in 2..4 THEN 32
  ELSE IF k \in 11..16 THEN 64
  ELSE IF k \in 17..20 THEN 128
  ELSE IF k = 21 THEN 64
  ELSE 0

\* The frame at the cursor is well formed: it starts with the magic byte,
\* lies within the buffer, and a continuation frame finds a palette with
\* room for its entries.
WellFormedAtCursor ==
  /\ cursor < len
  /\ MagicAt(cursor) = 170
  /\ DeclaredAt(cursor) > 0
  /\ cursor + DeclaredAt(cursor) <= len
  /\ (KindAt(cursor) % 128) \in {1, 4, 13, 16, 19} => palAlloc
  /\ (KindAt(cursor) % 128) = 1 => palCount + ByteAt(data, cursor + 6, 0) <= palCap

\* C10: for a well-formed frame of kind k (low 7 bits) decode_pic reports
\* the canvas size of the dispatch table: 16 for 0x00-0x01, 32 for
\* 0x02-0x04, 64 for 0x0B-0x10, 128 for 0x11-0x14, the fix decoder's canvas
\* for 0x15, and failure for every other kind.
C10_DispatchTable ==
  [][(Called("decode_pic") /\ WellFormedAtCursor /\ out'.err \notin NoMemoryCodes)
     => out'.ret = TableSize(KindAt(cursor) % 128)]_vars

\* The frame at the cursor starts with the magic byte and its first nbytes
\* bytes lie within the buffer
FrameWithin(nbytes) ==
  /\ cursor < len
  /\ MagicAt(cursor) = 170
  /\ cursor + nbytes <= len

\* The palette after the step is the n entries of the frame at the cursor,
\* the first of them at offset first of the frame
ResetTo(n, first) ==
  /\ palCount' = n
  /\ \A i \in 0..(Min(n, MaxEntries) - 1) :
       palette'[i + 1] = EntryAt(data, cursor + first + 3 * i, 0)

\* The pixels written by the step are the 3-byte groups at offset 8 of the
\* frame at the cursor
RawCopied ==
  /\ Len(out'.pixels) = MaxPixels
  /\ \A q \in 1..Len(out'.pixels) :
       out'.pixels[q] = EntryAt(data, cursor + 8 + 3 * (q - 1), 0)

\* The palette operation the step applied to a frame of kind byte kind, when
\* the kinds of resetKinds start a new palette, those of extendKinds append
\* to the palette in place and those of rawKinds copy raw pixels
PaletteOperation(kind, resetKinds, extendKinds, rawKinds) ==
  LET b == ByteAt(data, cursor + 6, 0)
      n == U16At(data, cursor + 6, 0)
      n16 == IF b = 0 THEN 256 ELSE b
  IN /\ (kind = 0 /\ kind \in resetKinds /\ FrameWithin(8 + 3 * n16 + MaxPixels))
        => (out'.ret # 0 /\ ResetTo(n16, 7))
     /\ (kind # 0 /\ kind \in resetKinds /\ FrameWithin(9 + 3 * n + MaxPixels))
        => (out'.ret # 0 /\ ResetTo(n, 8))
     /\ (kind = 1 /\ kind \in extendKinds /\ palAlloc /\ palCount + b <= palCap
         /\ FrameWithin(8 + 3 * b + MaxPixels))
        => (/\ out'.ret # 0
            /\ palCount' = palCount + b
            /\ Appended(b, 7))
     /\ (kind # 1 /\ kind \in extendKinds /\ palAlloc /\ palCount + n < U16
         /\ out'.err \notin NoMemoryCodes /\ FrameWithin(9 + 3 * n + MaxPixels))
        => (/\ out'.ret # 0
            /\ palCount' = palCount + n
            /\ Appended(n, 8))
     /\ (kind \in rawKinds /\ FrameWithin(8 + 3 * MaxPixels))
        => (out'.ret # 0 /\ RawCopied /\ palCount' = palCount /\ palCap' = palCap)

RECURSIVE InLit(_, _)
InLit(pieces, i) ==
  /\ pieces # << >>
  /\ IF i < Head(pieces).size THEN Head(pieces).gen = "lit"
     ELSE InLit(Tail(pieces), i - Head(pieces).size)

\* The pieces with byte i (0-based), a byte of a literal piece, set to b
RECURSIVE WithByte(_, _, _)
WithByte(pieces, i, b) ==
  IF i < Head(pieces).size
  THEN <<[Head(pieces) EXCEPT !.bytes[i + 1] = b]>> \o Tail(pieces)
  ELSE <<Head(pieces)>> \o WithByte(Tail(pieces), i - Head(pieces).size, b)

\* The handle's buffer with the high bit of the kind byte of the frame at
\* the cursor cleared
LowKindData ==
  [data EXCEPT !.pieces = WithByte(data.pieces, cursor + 5, KindAt(cursor) % 128)]

\* C12: decode_pic on a frame with kind byte k | 0x80 returns the same size
\* code, writes the same pixels and changes the cursor and the palette in the
\* same way as on the same frame with kind byte k.
C12_HighBitIgnored ==
  [][(/\ Called("decode_pic")
      /\ cursor + 5 < len
      /\ KindAt(cursor) >= 128
      /\ InLit(data.pieces, cursor + 5))
     => \E env \in PadBytes \X JunkColours \X OobBits \X BOOLEAN :
          LET d == Dispatch(LowKindData, cursor, PaletteState, env[1], env[2], env[3],
                            env[4])
          IN /\ out'.ret = (IF d.r.ok THEN d.size ELSE 0)
             /\ out'.pixels = d.r.pixels
             /\ cursor' = cursor + d.r.consumed
             /\ palCount' = d.r.count
             /\ palCap' = d.r.cap
             /\ palAlloc' = d.r.alloc
             /\ palette' = d.r.pal]_vars

\* ---------------------------------------------------- whole-stream decoders
\* decode_all and decode_handle walk a stream, call decode_pic once per
\* frame and enlarge the smaller frames in place.  The output buffer is
\* observed at the first MaxPixels pixels of each frame's slot, in units of
\* one pixel (3 bytes).

\* decode_all and decode_handle calls made in one run
MaxRuns == 2

\* a pixel of the output buffer that no call has written
Unwritten == -1

\* a pixel a decoder wrote after the first MaxPixels of its frame
Unobserved == -2

\* The requested output sizes offered to decode_all and decode_handle
RequestedFormats == {16, 32, 64, 128, 8}

At(buf, a) == IF a \in DOMAIN buf THEN buf[a] ELSE Unobserved

\* The observed pixels: the windows at stride * i and at block * i
Watched(stride, block, n) ==
  {stride * i + w : i \in 0..(n - 1), w \in 0..(MaxPixels - 1)}
    \cup {block * i + w : i \in 0..(n - 1), w \in 0..(MaxPixels - 1)}

\* decode_pic writing at base: the pixels it reports, then written - Len(pixels) more
Put(buf, base, pixels, written) ==
  [a \in DOMAIN buf |->
     IF a >= base /\ a < base + Len(pixels) THEN pixels[a - base + 1]
     ELSE IF a >= base + Len(pixels) /\ a < base + written THEN Unobserved
     ELSE buf[a]]

\* pixelIndex of the enlarging loops: the pixel read for (row, col)
PixelIndex(requestedFormat, status, row, col) ==
  IF requestedFormat = 64
  THEN IF status = 16 THEN (row - (row % 4)) * 4 + (col \div 4)
       ELSE (row - (row % 2)) * 16 + (col \div 2)
  ELSE (row - (row % 2)) * 8 + (col \div 2)

\* The pixel left at index d of the block at base by an enlarging loop,
\* which runs d from the last pixel down to 0 and copies the pixel at
\* pixelIndex onto d: a pixel above d has been written already when d reads it.
RECURSIVE Enlarged(_, _, _, _, _)
Enlarged(buf, base, requestedFormat, status, d) ==
  LET pixelIndex == PixelIndex(requestedFormat, status, d \div requestedFormat,
                               d % requestedFormat)
  IN IF pixelIndex <= d THEN At(buf, base + pixelIndex)
     ELSE Enlarged(buf, base, requestedFormat, status, pixelIndex)

\* The enlarging loops of decode_all and decode_handle on the block at base
Enlarge(buf, base, requestedFormat, status) ==
  [a \in DOMAIN buf |->
     IF a >= base /\ a < base + requestedFormat * requestedFormat
     THEN Enlarged(buf, base, requestedFormat, status, a - base)
     ELSE buf[a]]

\* divoom_image_decode_get_word_info(frameHeaderAddress, wordInfoOut), as
\* the ushort decode_all keeps; diag: wordInfoOut is not NULL
GetWordInfo(mem, h, diag, pad) ==
  IF ByteAt(mem, h + 5, pad) # 5 THEN 0
  ELSE IF ~diag THEN U16At(mem, h + 1, pad)
  ELSE IF U16At(mem, h + 1, pad) = 8 THEN 8
  ELSE LET stringBytes == U16At(mem, h + 20, pad) * 2
           formatType == ByteAt(mem, h + ((stringBytes + 22) % U16), pad)
       IN (stringBytes + 24 + formatType * 34) % U16

\* One decode_pic call of a whole-stream decoder on its handle s, frame
\* chunkIndex written at stride * chunkIndex, enlarged at block * chunkIndex.
\* errSize and errDecode are the codes printed.  (The decode_pic call d and
\* the buffer it leaves are bound as set elements: each is computed once.)
DecodeInto(mem, streamLen, s, chunkIndex, requestedFormat, stride, block, env, errSize, errDecode) ==
  CHOOSE result \in
    {LET status == IF d.r.ok THEN d.size ELSE 0
     IN CHOOSE enlarged \in
          {LET after == [cur |-> s.cur + d.r.consumed,
                         st |-> [count |-> d.r.count, cap |-> d.r.cap, alloc |-> d.r.alloc,
                                 pal |-> d.r.pal],
                         buf |-> written,
                         sizes |-> [s.sizes EXCEPT ![chunkIndex + 1] = status],
                         decoded |-> [s.decoded EXCEPT ![chunkIndex + 1] = d.r.pixels],
                         padRead |-> s.padRead \/ s.cur + d.r.reach > mem.size,
                         junkRead |-> s.junkRead \/ d.r.junkRead,
                         tableOob |-> s.tableOob \/ d.r.tableOob,
                         grew |-> s.grew \/ d.r.grew,
                         err |-> 0]
           IN IF requestedFormat < status THEN [after EXCEPT !.err = errSize]
              ELSE IF status = 0 THEN [after EXCEPT !.err = errDecode]
              ELSE IF status < requestedFormat /\ requestedFormat \in {32, 64}
              THEN [after EXCEPT !.buf = Enlarge(written, block * chunkIndex,
                                                  requestedFormat, status)]
              ELSE after
           : written \in {Put(s.buf, stride * chunkIndex, d.r.pixels, status * status)}}
          : TRUE
     : d \in {IF s.cur < streamLen
              THEN Dispatch(mem, s.cur, s.st, env[1], env[2], env[3], env[4])
              ELSE [size |-> 0, r |-> Failed(s.st, 6434)]}}
    : TRUE

\* The handle and the output buffer a whole-stream decoder starts from
Fresh(st, frameCount, stride, block) ==
  [cur |-> 0, st |-> st,
   buf |-> [a \in Watched(stride, block, frameCount) |-> Unwritten],
   sizes |-> [i \in 1..frameCount |-> 0],
   decoded |-> [i \in 1..frameCount |-> NoPixels],
   padRead |-> FALSE, junkRead |-> FALSE, tableOob |-> FALSE, grew |-> FALSE, err |-> 0]

\* The frame loop of decode_all from the frame at s.cur, frame chunkIndex:
\* word-info frames (kind 5) are stepped over, the others decoded; skip says
\* that the cursor was found at or past the end (err 0x18f3).
RECURSIVE AllFrames(_, _, _, _, _, _, _, _, _)
AllFrames(mem, streamLen, frameCount, s, chunkIndex, requestedFormat, diag, env, skip) ==
  LET stride == IF requestedFormat = 16 THEN 256
                ELSE IF requestedFormat = 64 THEN 4096 ELSE 16384
      block == IF requestedFormat = 32 THEN 1024 ELSE stride
      word == ~skip /\ ByteAt(mem, s.cur + 5, env[1]) = 5
  IN CHOOSE result \in
       {IF t.err # 0 \/ chunkIndex + 1 = frameCount THEN t
        ELSE AllFrames(mem, streamLen, frameCount, t, chunkIndex + 1, requestedFormat,
                       diag, env, t.cur >= streamLen)
        : t \in {IF word
                 THEN [s EXCEPT !.cur = s.cur + GetWordInfo(mem, s.cur, diag, env[1]),
                                !.padRead = s.padRead \/ s.cur + 24 > mem.size]
                 ELSE DecodeInto(mem, streamLen, s, chunkIndex, requestedFormat, stride,
                                 block, env, 5702, 5707)}}
       : TRUE

\* divoom_image_decode_decode_all(encodedStreamBase, encodedStreamLength,
\* outputPixelBuffer, userContext, requestedFormat, diagnosticBuffer) with
\* env the unspecified values it may observe and mallocOk the outcome of
\* malloc(0x50): the value returned (DIVERGES if the count never ends), the
\* error code printed last and the output buffer.
DecodeAllRun(mem, requestedFormat, diag, mallocOk, env) ==
  LET none == [Fresh(<< >>, 0, 0, 0) EXCEPT !.st = [count |-> 0, cap |-> 0,
                                                   alloc |-> FALSE, pal |-> << >>]]
      frameCount == IF mem.size > 0 THEN CountFrames(mem, mem.size, 0, 0, env[1]) ELSE 0
      stride == IF requestedFormat = 16 THEN 256
                ELSE IF requestedFormat = 64 THEN 4096 ELSE 16384
      block == IF requestedFormat = 32 THEN 1024 ELSE stride
  IN IF requestedFormat \notin {16, 32, 64, 128} \/ ~mallocOk \/ frameCount = 0
     THEN [ret |-> 0, run |-> none]
     ELSE IF frameCount = DIVERGES THEN [ret |-> DIVERGES, run |-> none]
     ELSE [ret |-> frameCount,
           run |-> AllFrames(mem, mem.size, frameCount,
                             Fresh(none.st, frameCount, stride, block), 0,
                             requestedFormat, diag, env, FALSE)]

\* The unspecified values a whole-stream run may observe: a value is varied
\* only if the run, made with the first value of each, reads it.
RunEnvs(r0) ==
  (IF r0.padRead THEN PadBytes ELSE {0})
    \X (IF r0.junkRead \/ r0.tableOob THEN JunkColours ELSE {0})
    \X (IF r0.tableOob THEN OobBits ELSE {0})
    \X (IF r0.grew THEN BOOLEAN ELSE {TRUE})

\* What a whole-stream decoder left for its caller: the value returned, the
\* code printed last, the size decode_pic reported per frame, the first
\* MaxPixels pixels it wrote and the first MaxPixels pixels left in each
\* frame's slot
OutAll(op, ret, requestedFormat, stride, run) ==
  [op |-> op, ret |-> ret, frame |-> -1, pixels |-> NoPixels, idxOver |-> FALSE,
   err |-> run.err, requested |-> requestedFormat, sizes |-> run.sizes,
   decoded |-> run.decoded,
   slots |-> [i \in 1..Len(run.sizes) |->
                [w \in 1..MaxPixels |-> run.buf[stride * (i - 1) + w - 1]]]]

DecodeAll(p, requestedFormat, diag, mallocOk, env) ==
  \E r \in {DecodeAllRun(Streams[p], requestedFormat, diag, mallocOk, env)},
     stride \in {IF requestedFormat = 16 THEN 256
                 ELSE IF requestedFormat = 64 THEN 4096 ELSE 16384} :
     /\ ~hung
     /\ nDecode < MaxRuns
     /\ nDecode' = nDecode + 1
     /\ hung' = (r.ret = DIVERGES)
     /\ out' = OutAll("decode_all", r.ret, requestedFormat, stride, r.run)
     /\ UNCHANGED <<input, data, len, cursor, palCount, palCap, palAlloc, palette, nAdd,
                    frames, walk>>

\* The frame loop of decode_handle from frame frameIndex
RECURSIVE HandleFrames(_, _, _, _, _, _, _)
HandleFrames(mem, streamLen, frameCount, s, frameIndex, requestedFormat, env) ==
  LET formatStride == IF requestedFormat = 16 THEN 256
                      ELSE IF requestedFormat = 64 THEN 4096 ELSE 1024
  IN CHOOSE result \in
       {IF t.err # 0 \/ frameIndex + 1 = frameCount THEN t
        ELSE HandleFrames(mem, streamLen, frameCount, t, frameIndex + 1, requestedFormat,
                          env)
        : t \in {DecodeInto(mem, streamLen, s, frameIndex, requestedFormat, formatStride,
                            formatStride, env, 5801, 5806)}}
       : TRUE

\* divoom_image_decode_decode_handle(handle, encodedStream, outputPixelBuffer,
\* userContext, requestedFormat) on the palette st of the handle: the stream
\* length it stores is the declared length of the first frame.
DecodeHandleRun(mem, st, requestedFormat, env) ==
  LET formatStride == IF requestedFormat = 16 THEN 256
                      ELSE IF requestedFormat = 64 THEN 4096 ELSE 1024
      streamLen == U16At(mem, 1, env[1])
      frameCount == IF streamLen = 0 THEN 0
                    ELSE CountFrames(mem, streamLen, 0, 0, env[1])
      none == [Fresh(st, 0, 0, 0) EXCEPT !.padRead = mem.size < 3]
  IN IF requestedFormat \notin {16, 32, 64}
     THEN [ret |-> 0, attached |-> FALSE, len |-> 0, run |-> Fresh(st, 0, 0, 0)]
     ELSE IF frameCount = 0
     THEN [ret |-> 0, attached |-> TRUE, len |-> streamLen, run |-> none]
     ELSE [ret |-> frameCount, attached |-> TRUE, len |-> streamLen,
           run |-> HandleFrames(mem, streamLen, frameCount,
                                [Fresh(st, frameCount, formatStride, formatStride)
                                   EXCEPT !.padRead = mem.size < 3],
                                0, requestedFormat, env)]

DecodeHandle(p, requestedFormat, env) ==
  \E r \in {DecodeHandleRun(Streams[p], PaletteState, requestedFormat, env)},
     formatStride \in {IF requestedFormat = 16 THEN 256
                       ELSE IF requestedFormat = 64 THEN 4096 ELSE 1024} :
     /\ ~hung
     /\ nDecode < MaxRuns
     /\ nDecode' = nDecode + 1
     /\ IF r.attached
        THEN /\ input' = p
             /\ data' = Streams[p]
             /\ len' = r.len
             /\ cursor' = r.run.cur
             /\ palCount' = r.run.st.count
             /\ palCap' = r.run.st.cap
             /\ palAlloc' = r.run.st.alloc
             /\ palette' = r.run.st.pal
        ELSE UNCHANGED <<input, data, len, cursor, palCount, palCap, palAlloc, palette>>
     /\ out' = OutAll("decode_handle", r.ret, requestedFormat, formatStride, r.run)
     /\ walk' = -1
     /\ UNCHANGED <<hung, nAdd, frames>>

\* The loop of decode_get_pic_num from frameOffset: one more picture per
\* declared length, no magic byte checked
RECURSIVE GetPicNum(_, _, _, _, _)
GetPicNum(mem, encodedLength, frameOffset, picCount, pad) ==
  LET next == U16At(mem, frameOffset + 1, pad) + frameOffset
  IN IF next = frameOffset THEN DIVERGES
     ELSE IF next < encodedLength
     THEN GetPicNum(mem, encodedLength, next, picCount + 1, pad)
     ELSE picCount + 1

\* divoom_image_decode_decode_get_pic_num(frameBase, encodedLength)
DecodeGetPicNum(p, pad) ==
  LET picCount == IF Streams[p].size = 0 THEN 0
                  ELSE GetPicNum(Streams[p], Streams[p].size, 0, 0, pad)
  IN /\ ~hung
     /\ nDecode < MaxRuns
     /\ nDecode' = nDecode + 1
     /\ hung' = (picCount = DIVERGES)
     /\ out' = Out("decode_get_pic_num", picCount, -1)
     /\ UNCHANGED <<input, data, len, cursor, palCount, palCap, palAlloc, palette, nAdd,
                    frames, walk>>

\* decode_all, decode_handle and decode_get_pic_num called on the buffers of
\* the whole-stream runs
NextAll ==
  \/ \E p \in AllStreams, pad \in PadBytes : DecodeGetPicNum(p, pad)
  \/ \E p \in AllStreams, requestedFormat \in RequestedFormats, diag \in BOOLEAN,
        mallocOk \in BOOLEAN :
       \E r0 \in {DecodeAllRun(Streams[p], requestedFormat, diag, mallocOk, DefaultEnv)} :
         \E env \in RunEnvs(r0.run) : DecodeAll(p, requestedFormat, diag, mallocOk, env)
  \/ \E p \in AllStreams, requestedFormat \in RequestedFormats :
       \E r0 \in {DecodeHandleRun(Streams[p], PaletteState, requestedFormat, DefaultEnv)} :
         \E env \in RunEnvs(r0.run) : DecodeHandle(p, requestedFormat, env)

SpecAll == Init /\ [][NextAll]_vars

\* C13: a decode_all or decode_handle call that stopped on a frame larger
\* than the requested size, or on a frame that failed to decode, returns a
\* value different from the one returned by a call on a stream of as many
\* frames that decoded every frame.
C13_ErrorInReturnValue ==
  [][\A op \in {"decode_all", "decode_handle"} :
       (/\ Called(op)
        /\ out.op = op
        /\ out.err = 0
        /\ out.ret > 0
        /\ out'.err # 0
        /\ Len(out'.sizes) = Len(out.sizes))
       => out'.ret # out.ret]_vars

\* C18: every call that walks the frames of a stream returns, whatever the
\* stream holds, a frame of declared length 0 included.
C18_WalkersReturn == ~hung

\* C14: after decode_all with requested size R in {32, 64, 128}, the slot
\* of every frame of intrinsic size S < R holds the frame with each pixel
\* expanded to an (R/S) x (R/S) block: pixel x of the first row is pixel
\* x div (R/S) of the decoded frame.
C14_SlotsEnlarged ==
  (out.op = "decode_all" /\ out.requested \in {32, 64, 128})
  => \A i \in DOMAIN out.sizes :
       (out.sizes[i] > 0 /\ out.sizes[i] < out.requested)
       => \A w \in 1..MaxPixels :
            out.slots[i][w]
              = out.decoded[i][((w - 1) \div (out.requested \div out.sizes[i])) + 1]

\* ------------------------------------------------------- in-place enlarging
\* decode_large_pic enlarges a 16x16 picture to 32x32 and decode_large_pic_64
\* a 16x16 (formatByte 0x10) or 32x32 picture to 64x64, inside frameBuffer.
\* One step is one pass of the outer loop: a row of destination pixels,
\* written from the last column to the first.

\* The pictures enlarged: picture 1 gives every pixel its own colour
LargeImages == {1, 2, 3}

LargePixel(image, i) ==
  IF image = 1 THEN i + 1 ELSE IF image = 2 THEN (i * 7) % 5 ELSE (i \div 3) % 2

\* The calls: decode_large_pic, and decode_large_pic_64 with formatByte
\* 0x10 and with another formatByte
LargeCalls ==
  { [op |-> "decode_large_pic", formatByte |-> 16, side |-> 32],
    [op |-> "decode_large_pic_64", formatByte |-> 16, side |-> 64],
    [op |-> "decode_large_pic_64", formatByte |-> 32, side |-> 64] }

\* sourcePixelIndex for (rowIndex, columnIndex)
SourcePixelIndex(call, rowIndex, columnIndex) ==
  IF call.op = "decode_large_pic"
  THEN ((rowIndex - (rowIndex % 2)) * 8 + (columnIndex \div 2)) % U16
  ELSE IF call.formatByte = 16
  THEN ((rowIndex - (rowIndex % 4)) * 4 + (columnIndex \div 4)) % U16
  ELSE ((rowIndex - (rowIndex % 2)) * 16 + (columnIndex \div 2)) % U16

\* The inner loop run from the first column to the last
RECURSIVE LargeRowLeftToRight(_, _, _, _)
LargeRowLeftToRight(buf, call, rowIndex, columnCounter) ==
  LET columnIndex == call.side - 1 - columnCounter
      destPixelIndex == rowIndex * call.side + columnIndex
      copied == [buf EXCEPT ![destPixelIndex + 1] =
                   buf[SourcePixelIndex(call, rowIndex, columnIndex) + 1]]
  IN IF columnCounter = 0 THEN copied
     ELSE LargeRowLeftToRight(copied, call, rowIndex, columnCounter - 1)

\* The inner loop: columnCounter runs from the last column down to 0, each
\* pass copying the pixel at sourcePixelIndex onto destPixelIndex
RECURSIVE LargeRow(_, _, _, _)
LargeRow(buf, call, rowIndex, columnCounter) ==
  LET columnIndex == columnCounter
      destPixelIndex == rowIndex * call.side + columnIndex
      copied == [buf EXCEPT ![destPixelIndex + 1] =
                   buf[SourcePixelIndex(call, rowIndex, columnIndex) + 1]]
  IN IF columnIndex = 0 THEN copied
     ELSE LargeRow(copied, call, rowIndex, columnCounter - 1)

\* frameBuffer at the call: the picture decoded at its own size, the rest
\* of the enlarged picture not yet written
InitLarge ==
  /\ input = NULL
  /\ data = Buffer(<< >>)
  /\ len = 0
  /\ cursor = 0
  /\ palCount = 0
  /\ palCap = 0
  /\ palAlloc = FALSE
  /\ palette = << >>
  /\ \E call \in LargeCalls, image \in LargeImages :
       out = [op |-> call.op, ret |-> 0, frame |-> -1,
              pixels |-> [d \in 1..(call.side * call.side) |->
                            IF d <= call.formatByte * call.formatByte
                            THEN LargePixel(image, d - 1) ELSE Unwritten],
              idxOver |-> FALSE, err |-> 0, call |-> call, image |-> image,
              rowIndex |-> call.side - 1]
  /\ hung = FALSE
  /\ nAdd = 0
  /\ nDecode = 0
  /\ frames = 0
  /\ walk = -1

\* One pass of the outer loop of divoom_image_decode_decode_large_pic
DecodeLargePic ==
  /\ out.op = "decode_large_pic"
  /\ out.rowIndex >= 0
  /\ out' = [out EXCEPT !.pixels = LargeRow(out.pixels, out.call, out.rowIndex, 31),
                        !.rowIndex = out.rowIndex - 1]
  /\ UNCHANGED <<input, data, len, cursor, palCount, palCap, palAlloc, palette, hung,
                 nAdd, nDecode, frames, walk>>

\* One pass of the outer loop of divoom_image_decode_decode_large_pic_64
DecodeLargePic64 ==
  /\ out.op = "decode_large_pic_64"
  /\ out.rowIndex >= 0
  /\ out' = [out EXCEPT !.pixels = LargeRow(out.pixels, out.call, out.rowIndex, 63),
                        !.rowIndex = out.rowIndex - 1]
  /\ UNCHANGED <<input, data, len, cursor, palCount, palCap, palAlloc, palette, hung,
                 nAdd, nDecode, frames, walk>>

NextLarge == DecodeLargePic \/ DecodeLargePic64

SpecLarge == InitLarge /\ [][NextLarge]_vars

\* C15: the enlarging loops run from the bottom-right pixel to the top-left
\* one and never overwrite a source pixel they have yet to read: every row
\* already written holds dest(x, y) = src(x div k, y div k), k the factor,
\* and every source pixel a row still to be written reads is as decoded.
C15_EnlargedInPlace ==
  out.op \in {"decode_large_pic", "decode_large_pic_64"}
  => LET side == out.call.side
         small == out.call.formatByte
         k == side \div small
     IN /\ \A y \in (out.rowIndex + 1)..(side - 1), x \in 0..(side - 1) :
             out.pixels[y * side + x + 1]
               = LargePixel(out.image, (y \div k) * small + (x \div k))
        /\ \A y \in 0..out.rowIndex, x \in 0..(side - 1) :
             out.pixels[(y \div k) * small + (x \div k) + 1]
               = LargePixel(out.image, (y \div k) * small + (x \div k))

\* a picture of distinct colours enlarged to the end
C15_AllRowsWritten ==
  /\ out.op = "decode_large_pic_64"
  /\ out.call.formatByte = 16
  /\ out.image = 1
  /\ out.rowIndex = -1
  /\ out.pixels[64 * 64] = 256
  /\ out.pixels[5] = 2

\* ------------------------------------------------------ the 11 x 11 codec
\* divoom_pic_encode and divoom_pic_decode work on a picture of 0x79 pixels
\* of three 4-bit values, packed two pixels in three bytes.  A colour is kept
\* here as first + 16 * second + 256 * third.

\* The pictures offered to divoom_pic_encode: colours different colours in
\* runs of run pixels
PicInputs == [colours : 1..24 \cup {121}, run : {1, 2, 5, 20}]

PicColour(c) == (c * 33 + 1) % 4096

\* inputImage: the 182 bytes of the picture g
PicBytes(g) ==
  LET nib(k) == IF k >= 363 THEN 0
                ELSE LET v == PicColour(((k \div 3) \div g.run) % g.colours)
                     IN IF k % 3 = 0 THEN v % 16
                        ELSE IF k % 3 = 1 THEN (v \div 16) % 16 ELSE v \div 256
  IN [t \in 1..182 |-> nib(2 * (t - 1)) + 16 * nib(2 * (t - 1) + 1)]

\* The colour of pixel pixelIndex as both functions read it from packed bytes
PicUnpack(bytes, pixelIndex) ==
  LET o == (pixelIndex \div 2) + pixelIndex
  IN IF pixelIndex % 2 = 0
     THEN (bytes[o + 1] % 16) + 16 * (bytes[o + 1] \div 16) + 256 * (bytes[o + 2] % 16)
     ELSE (bytes[o + 1] \div 16) + 16 * (bytes[o + 2] % 16) + 256 * (bytes[o + 2] \div 16)

\* The first loop of divoom_pic_encode: every pixel is looked up in the
\* palette built so far and appended to it when absent, so the palette holds
\* the colours in order of first appearance, and the index of a pixel is the
\* number of colours that first appear before its own.
PicPalette(inputImage) ==
  LET v == [pixelIndex \in 0..120 |-> PicUnpack(inputImage, pixelIndex)]
      firsts == {q \in 0..120 : \A e \in 0..(q - 1) : v[e] # v[q]}
      Rank(q) == Cardinality({e \in firsts : e < q})
  IN [paletteBuffer |-> [c \in 1..Cardinality(firsts) |->
                           v[CHOOSE q \in firsts : Rank(q) = c - 1]],
      pixelColorIndices |-> [q \in 1..121 |->
                               Rank(CHOOSE e \in firsts : v[e] = v[q - 1])]]

\* The palette as both functions pack it after the two header bytes
PicPaletteBytes(paletteBuffer) ==
  LET nib(k) == IF k >= 3 * Len(paletteBuffer) THEN 0
                ELSE LET v == paletteBuffer[(k \div 3) + 1]
                     IN IF k % 3 = 0 THEN v % 16
                        ELSE IF k % 3 = 1 THEN (v \div 16) % 16 ELSE v \div 256
  IN [t \in 1..((3 * Len(paletteBuffer) + 1) \div 2) |->
        nib(2 * (t - 1)) + 16 * nib(2 * (t - 1) + 1)]

\* The number of pixels after pixel p equal to it, counted up to limit
RECURSIVE PicRun(_, _, _, _)
PicRun(pixelColorIndices, p, j, limit) ==
  IF pixelColorIndices[p + 1] # pixelColorIndices[j + p + 2] THEN j
  ELSE IF j + 1 = limit THEN j + 1
  ELSE PicRun(pixelColorIndices, p, j + 1, limit)

\* The run-length loops of divoom_pic_encode (pairs: index byte and count
\* byte, mode 2; otherwise index and count in one byte, mode 0) from pixel p:
\* the body bytes, and hung when the loop comes back to a pixel it has
\* started from (passes).  The next pixel is runLength + 1, runLength being
\* the capped count of pixels left plus the run found.
RECURSIVE PicRunLoop(_, _, _, _, _)
PicRunLoop(pixelColorIndices, p, body, pairs, passes) ==
  LET runLength == IF 119 - p > 12 THEN 13 ELSE 119 - p
      j == IF p < 120 THEN PicRun(pixelColorIndices, p, 0, runLength + 1) ELSE 0
      next == IF p < 120 THEN (runLength + j + 1) % U16 ELSE (p + 1) % U16
      written == IF pairs
                 THEN body \o <<pixelColorIndices[p + 1], (j + 1) % 256>>
                 ELSE Append(body, BitOr(pixelColorIndices[p + 1], ((j + 1) * 16) % 256))
  IN IF next \in passes \cup {p} THEN [hung |-> TRUE, body |-> written]
     ELSE IF next < 121
     THEN PicRunLoop(pixelColorIndices, next, written, pairs, passes \cup {p})
     ELSE [hung |-> FALSE, body |-> written]

\* divoom_pic_encode(inputImage, outputSize): the malloc'ed buffer of
\* paletteOffset + 0x16b bytes and *outputSize, or hung.  junk is the
\* value of the byte after pixelColorIndices.
PicEncode(inputImage, junk) ==
  LET pal == PicPalette(inputImage)
      colorIndex == Len(pal.paletteBuffer)
      idx == pal.pixelColorIndices
      paletteOffset == ((colorIndex + colorIndex * 2 + 1) \div 2) + 2
      encodeMode == IF paletteOffset = 1 THEN 4
                    ELSE IF paletteOffset = 2 THEN 5
                    ELSE IF 16 < colorIndex THEN 2 ELSE 0
      head == <<encodeMode, colorIndex % 256>> \o PicPaletteBytes(pal.paletteBuffer)
      Filled(mode, body, dataOffset) ==
        [hung |-> FALSE,
         bytes |-> [t \in 1..(paletteOffset + 363) |->
                      IF t = 1 THEN mode
                      ELSE IF t <= Len(head) THEN head[t]
                      ELSE IF t - paletteOffset \in 1..Len(body)
                      THEN body[t - paletteOffset] ELSE 0],
         size |-> (dataOffset + paletteOffset) % U16]
      bits == [t \in 1..16 |->
                 LET Sum[b \in 0..8] ==
                       IF b = 8 THEN 0
                       ELSE (IF 8 * (t - 1) + b < 121
                             THEN idx[8 * (t - 1) + b + 1] * Pow2[b] ELSE 0) + Sum[b + 1]
                 IN Sum[0] % 256]
      loop == PicRunLoop(idx, 0, << >>, colorIndex >= 17, {})
      runs == loop.body
  IN IF colorIndex = 1 THEN Filled(encodeMode, << >>, 0)
     ELSE IF colorIndex = 2 THEN Filled(encodeMode, bits, 16)
     ELSE IF loop.hung THEN [hung |-> TRUE, bytes |-> << >>, size |-> 0]
     ELSE IF colorIndex >= 17
     THEN IF Len(runs) < 122 THEN Filled(encodeMode, runs, Len(runs))
          ELSE Filled(3, [t \in 1..Len(runs) |-> IF t <= 121 THEN idx[t] ELSE runs[t]],
                      121)
     ELSE IF Len(runs) < 183 THEN Filled(encodeMode, runs, Len(runs))
          ELSE Filled(1, [t \in 1..Len(runs) |->
                            IF t < 61 THEN idx[2 * t - 1] + 16 * (idx[2 * t] % 16)
                            ELSE IF t = 61 THEN BitOr(idx[121], (junk * 16) % 256)
                            ELSE runs[t]],
                      182)

\* The run-length loops of divoom_pic_decode (modes 2 and 0) from byte t of
\* encodedData with pixelIndex pixels done.  Bytes that add no pixel are
\* passed over; a read past the end of the buffer is undefined: the call
\* never returns (hang) or ends with the pixels it has.
RECURSIVE PicDecodeRuns(_, _, _, _, _, _, _)
PicDecodeRuns(enc, pal, pairs, t, pixelIndex, pixels, hang) ==
  LET Count(u) == IF pairs THEN enc[u + 2] ELSE enc[u + 1] \div 16
      live == {u \in t..(Len(enc) - 2) : (~pairs \/ (u - t) % 2 = 0) /\ Count(u) > 0}
      u == CHOOSE v \in live : \A e \in live : v <= e
      colour == pal[IF pairs THEN enc[u + 1] ELSE enc[u + 1] % 16]
      painted == [q \in 1..121 |->
                    IF q - 1 >= pixelIndex /\ q - 1 < pixelIndex + Count(u) THEN colour
                    ELSE pixels[q]]
  IN IF live = {} THEN [hung |-> hang, pixels |-> pixels]
     ELSE IF pixelIndex + Count(u) < 121
     THEN PicDecodeRuns(enc, pal, pairs, u + (IF pairs THEN 2 ELSE 1),
                        pixelIndex + Count(u), painted, hang)
     ELSE [hung |-> FALSE, pixels |-> painted]

\* divoom_pic_decode(outputBuffer, encodedData): the 0x79 colours left in
\* outputBuffer, or hung.  fill is the colour of a pixel not written,
\* junk the colour read from paletteBuffer past the entries set.
PicDecode(enc, fill, junk, hang) ==
  LET paletteSize == enc[2]
      decodeMode == enc[1]
      packed == [t \in 1..(Len(enc) - 2) |-> enc[t + 2]]
      pal == [i \in 0..255 |-> IF i < paletteSize THEN PicUnpack(packed, i) ELSE junk]
      paletteColorIndex == ((paletteSize * 3 + 1) \div 2) + 2
      blank == [q \in 1..121 |-> fill]
      Done(pixels) == [hung |-> FALSE, pixels |-> pixels]
  IN IF decodeMode = 0 THEN PicDecodeRuns(enc, pal, FALSE, paletteColorIndex, 0, blank, hang)
     ELSE IF decodeMode = 1
     THEN Done([q \in 1..121 |->
                  LET b == enc[((q - 1) \div 2) + paletteColorIndex + 1]
                  IN pal[IF (q - 1) % 2 = 0 THEN b % 16 ELSE b \div 16]])
     ELSE IF decodeMode = 2
     THEN PicDecodeRuns(enc, pal, TRUE, paletteColorIndex, 0, blank, hang)
     ELSE IF decodeMode = 4 THEN Done([q \in 1..121 |-> pal[0]])
     ELSE IF decodeMode = 5
     THEN Done([q \in 1..121 |->
                  pal[(enc[((q - 1) \div 8) + paletteColorIndex + 1]
                         \div Pow2[(q - 1) % 8]) % 2]])
     ELSE Done([q \in 1..121 |-> pal[enc[(q - 1) + paletteColorIndex + 1]]])

\* Values the byte after pixelColorIndices, an unset palette entry and an
\* unwritten output pixel may hold
PicJunk == {0, 4095}

\* a picture handed to the encoder
InitPic ==
  /\ input = NULL
  /\ data = Buffer(<< >>)
  /\ len = 0
  /\ cursor = 0
  /\ palCount = 0
  /\ palCap = 0
  /\ palAlloc = FALSE
  /\ palette = << >>
  /\ \E g \in PicInputs :
       out = [op |-> "inputImage", ret |-> 0, frame |-> -1, pixels |-> NoPixels,
              idxOver |-> FALSE, err |-> 0, inputImage |-> PicBytes(g),
              encodedData |-> << >>, outputBuffer |-> << >>]
  /\ hung = FALSE
  /\ nAdd = 0
  /\ nDecode = 0
  /\ frames = 0
  /\ walk = -1

DivoomPicEncode(junk) ==
  LET r == PicEncode(out.inputImage, junk % 16)
  IN /\ out.op = "inputImage"
     /\ hung' = r.hung
     /\ out' = [out EXCEPT !.op = "divoom_pic_encode", !.ret = r.size,
                           !.encodedData = r.bytes]
     /\ UNCHANGED <<input, data, len, cursor, palCount, palCap, palAlloc, palette, nAdd,
                    nDecode, frames, walk>>

DivoomPicDecode(fill, junk, hang) ==
  LET r == PicDecode(out.encodedData, fill, junk, hang)
  IN /\ out.op = "divoom_pic_encode"
     /\ ~hung
     /\ hung' = r.hung
     /\ out' = [out EXCEPT !.op = "divoom_pic_decode", !.outputBuffer = r.pixels]
     /\ UNCHANGED <<input, data, len, cursor, palCount, palCap, palAlloc, palette, nAdd,
                    nDecode, frames, walk>>

NextPic ==
  \/ \E junk \in PicJunk : DivoomPicEncode(junk)
  \/ \E fill \in PicJunk, junk \in PicJunk, hang \in BOOLEAN :
       DivoomPicDecode(fill, junk, hang)

SpecPic == InitPic /\ [][NextPic]_vars

\* C16: divoom_pic_encode returns for every picture of 121 pixels, and
\* divoom_pic_decode of what it returned gives back every pixel of the
\* picture.
C16_RoundTrip ==
  /\ out.op = "divoom_pic_encode" => ~hung
  /\ out.op = "divoom_pic_decode"
     => /\ ~hung
        /\ \A pixelIndex \in 0..120 :
             out.outputBuffer[pixelIndex + 1] = PicUnpack(out.inputImage, pixelIndex)

\* ------------------------------------------------- the fix quadtree decoder
\* decode_one_fix hands the four quadrants of a canvas of 128 pixels per row
\* to decode_fix_64; a node of the tree is a leaf of direct indices (type
\* 0), a leaf with a palette of its own (type 2) or a split into four nodes
\* of half the size.  Positions are pixel offsets into the output buffer
\* (3 bytes each); the buffer is observed at the corner pixels of its 8x8
\* tiles.

\* The pixels of the output buffer that are observed
FixWatched == {128 * y + x : x \in {c \in 0..127 : c % 8 \in {0, 7}}, y \in {c \in 0..127 : c % 8 \in {0, 7}}}

\* entry i (0-based) of a palette cache of the decoder state, zeroed by memset
CacheAt(cache, i) == IF i < Len(cache) THEN cache[i + 1] ELSE 0

\* the bytes 0, 1, .. that decode_fix_64 takes for its palette source
FixIdentity == [i \in 1..256 |-> i - 1]

\* The inline index reader of the fix decoders: index n of the bitstream at
\* mem + bitstream, bits bits per index
FixIndex(mem, bitstream, n, bits, pad) ==
  LET bitAccumulator == (n * bits) % 8
      pixelIndex == bitAccumulator + bits
      currentByte == ByteAt(mem, bitstream + ((n * bits) \div 8), pad)
      nextByte == ByteAt(mem, bitstream + ((n * bits) \div 8) + 1, pad)
  IN IF pixelIndex < 9
     THEN Shr8(ShlMask8(currentByte, (8 - pixelIndex) % 32), (8 - bits) % 32)
     ELSE BitOr(Shr8(ShlMask8(nextByte, (16 - pixelIndex) % 32), (8 - bits) % 32),
                Shr8(currentByte, bitAccumulator % 32))

\* The bitmap loop taking the first entries of paletteSource, as many as
\* bits are set, whichever bits they are
FixIndexFromMapFirst(mem, bitfieldMap, entryCount, paletteSource, cache, pad) ==
  CHOOSE result \in
    {[count |-> n,
      cache |-> [j \in 1..Max(n, Len(cache)) |->
                   IF j > n THEN cache[j] ELSE CacheAt(paletteSource, j - 1)]]
     : n \in {Cardinality({i \in 0..(entryCount - 1) :
                   (ByteAt(mem, bitfieldMap + (i \div 8), pad) \div Pow2[i % 8]) % 2 = 1})}}
    : TRUE

\* decode_fix_get_index_from_map and the loops like it: the entries of
\* paletteSource whose bit is set among the first entryCount bits at
\* mem + bitfieldMap, in order, written over the start of the cache, and
\* their number
FixIndexFromMap(mem, bitfieldMap, entryCount, paletteSource, cache, pad) ==
  CHOOSE result \in
    {[count |-> Cardinality(set),
      cache |-> [j \in 1..Max(Cardinality(set), Len(cache)) |->
                   IF j > Cardinality(set) THEN cache[j]
                   ELSE CacheAt(paletteSource,
                                CHOOSE i \in set : Cardinality({k \in set : k <= i}) = j)]]
     : set \in {{i \in 0..(entryCount - 1) :
                   (ByteAt(mem, bitfieldMap + (i \div 8), pad) \div Pow2[i % 8]) % 2 = 1}}}
    : TRUE

\* The observed pixels a leaf paints: bands bands of level \div 8 tiles of 8
\* rows of 8 pixels, indices read in that order and looked up in table,
\* colours taken from the palette at mem + 8
FixPaint(mem, level, bands, blockColumn, blockRow, bitstream, bits, table, pad) ==
  CHOOSE result \in
    {[pos \in {p \in FixWatched :
                 /\ p % 128 >= blockColumn * level
                 /\ p % 128 < (blockColumn + 1) * level
                 /\ p \div 128 >= blockRow * level
                 /\ p \div 128 < blockRow * level + 8 * n} |->
        LET x == (pos % 128) - blockColumn * level
            y == (pos \div 128) - blockRow * level
            pixel == ((((y \div 8) * (level \div 8)) + (x \div 8)) * 8 + (y % 8)) * 8 + (x % 8)
        IN EntryAt(mem, 8 + 3 * CacheAt(table, FixIndex(mem, bitstream, pixel, b, pad)), pad)]
     : n \in {bands}, b \in {bits}}
    : TRUE

\* The bands a type 0 leaf of decode_fix_64 and decode_fix_32 paints: its
\* loop ends after the band whose last index plus 1 is level \div 8; 0 if it
\* is still running when it leaves the buffer
FixBands(mem, level, blockRow, bitstream, bits, pad) ==
  LET ends == {k \in 1..(16 - blockRow * (level \div 8)) :
                 FixIndex(mem, bitstream, k * level * 8 - 1, bits, pad) + 1 = level \div 8}
  IN IF ends = {} THEN 0 ELSE CHOOSE k \in ends : \A j \in ends : k <= j

\* The bytes of the header of a split node with a bitmap of entryCount bits
FixHeaderShort(entryCount) == (entryCount \div 8) + 2

FixHeader(entryCount) == ((entryCount + 7) \div 8) + 2

\* What a node or a run of nodes leaves: the bytes counted, the pixels
\* painted, the four caches, the split nodes that returned, whether a
\* loop ran past the end of the buffer, where each call of the run
\* started and what it returned, and the bitmaps read (maps): for each the
\* node, the number of bits, where the bitmap and the bytes after it start,
\* the palette source and the entries written to the cache of the level;
\* and the calls made (tiles): for each the node, its level and block, and
\* the bands of 8 rows its pixel loops have written (a split writes none)
FixResult(stuck, ret, paint, caches, nodes, overrun, children, maps, tiles) ==
  [hung |-> stuck, ret |-> ret, paint |-> paint, caches |-> caches, nodes |-> nodes,
   overrun |-> overrun, children |-> children, maps |-> maps, tiles |-> tiles]

\* divoom_image_decode_decode_fix_64, _32, _16 and _8 (level 64, 32, 16, 8)
\* on the node at mem + blockDescriptor; FixChildren: the four calls a split
\* node (or decode_one_fix) makes from the k-th on, done what the calls
\* before them left, done.ret the running total paletteEntryCount.  env:
\* the byte read outside the frame, the bits read past the table, and
\* whether a loop that ran past the end of the buffer came back.
RECURSIVE DecodeFix(_, _, _, _, _, _, _, _, _), FixChildren(_, _, _, _, _, _, _, _, _, _)
DecodeFix(level, mem, caches, blockDescriptor, blockColumn, blockRow, paletteSource, paletteBitDepth, env) ==
  LET pad == env[1]
      flagByte == ByteAt(mem, blockDescriptor, pad)
      lenByte == ByteAt(mem, blockDescriptor + 1, pad)
      entryCount == IF level = 8 THEN flagByte % 128
                    ELSE IF lenByte # 0 THEN lenByte ELSE 256
      slot == CASE level = 64 -> 1 [] level = 32 -> 2 [] level = 16 -> 3 [] OTHER -> 4
      shift == CASE level = 64 -> 512 [] level = 32 -> 128 [] level = 16 -> 32 [] OTHER -> 8
      tile(bands) ==
        {[level |-> level, at |-> blockDescriptor, blockColumn |-> blockColumn,
          blockRow |-> blockRow, bands |-> bands]}
      leaf(bands, bitstream, bits, table, ret, filled, overrun, maps) ==
        FixResult(overrun /\ ~env[3], ret,
                  FixPaint(mem, level, bands, blockColumn, blockRow, bitstream, bits, table,
                           pad),
                  filled, {}, overrun, << >>, maps, tile(bands))
  IN CHOOSE result \in
       {LET filled == [caches EXCEPT ![slot] = map.cache]
            read(bitmap, body) ==
              {[level |-> level, at |-> blockDescriptor, len |-> entryCount,
                bitmap |-> bitmap, body |-> body, source |-> paletteSource,
                local |-> SubSeq(map.cache, 1, map.count)]}
        IN IF level = 8
           THEN IF flagByte >= 128
                THEN LET paletteEntryCount == ((entryCount + 7) \div 8) + 1
                         bits == Bits(paletteEntryCount % 256, env[2])
                     IN leaf(1, blockDescriptor + paletteEntryCount, bits, map.cache,
                             paletteEntryCount + bits * 8, filled, FALSE,
                             read(blockDescriptor + 1, blockDescriptor + paletteEntryCount))
                ELSE LET bits == Bits(paletteBitDepth, env[2])
                     IN leaf(1, blockDescriptor + 1, bits, paletteSource,
                             BitOr(bits * 8, 1), caches, FALSE, {})
           ELSE IF flagByte = 2
           THEN LET paletteEntryCount == (entryCount + 7) \div 8
                    bits == Bits(map.count, env[2])
                    bitstream == blockDescriptor + paletteEntryCount + 2
                    last == FixIndex(mem, bitstream, level * level - 1, bits, pad)
                IN leaf(level \div 8, bitstream, bits, map.cache,
                        IF level = 16 THEN paletteEntryCount + bits * 32 + 2
                        ELSE BitOr(last, bits * shift) + 2,
                        filled, FALSE, read(blockDescriptor + 2, bitstream))
           ELSE IF flagByte = 0
           THEN CHOOSE direct \in
                  {leaf(IF bands = 0 THEN 16 ELSE bands, blockDescriptor + 1,
                        Bits(paletteBitDepth, env[2]), paletteSource,
                        BitOr(Bits(paletteBitDepth, env[2]) * shift, 1), caches, bands = 0,
                        {})
                   : bands \in {IF level = 16 THEN 2
                                ELSE FixBands(mem, level, blockRow, blockDescriptor + 1,
                                              Bits(paletteBitDepth, env[2]), pad)}}
                  : TRUE
           ELSE CHOOSE split \in
                  {[kids EXCEPT
                      !.nodes = IF kids.hung THEN kids.nodes
                                ELSE kids.nodes
                                       \cup {[level |-> level, at |-> blockDescriptor,
                                              len |-> entryCount, ret |-> kids.ret,
                                              children |-> kids.children]}]
                   : kids \in
                       {FixChildren(level \div 2, mem, blockDescriptor, blockColumn,
                                    blockRow, map.cache, map.count, env, 0,
                                    FixResult(FALSE, FixHeader(entryCount), << >>, filled,
                                              {}, FALSE, << >>,
                                              read(blockDescriptor + 2,
                                                   blockDescriptor
                                                     + FixHeader(entryCount)),
                                              tile(0)))}}
                  : TRUE
        : map \in {IF (level = 8 /\ flagByte >= 128) \/ (level # 8 /\ flagByte # 0)
                   THEN FixIndexFromMap(mem, blockDescriptor + (IF level = 8 THEN 1 ELSE 2),
                                        entryCount, paletteSource, caches[slot], pad)
                   ELSE [count |-> 0, cache |-> caches[slot]]}}
       : TRUE

FixChildren(level, mem, blockDescriptor, blockColumn, blockRow, paletteSource, paletteBitDepth, env, k, done) ==
  IF k = 4 \/ done.hung THEN done
  ELSE CHOOSE result \in
         {FixChildren(level, mem, blockDescriptor, blockColumn, blockRow, paletteSource,
                      paletteBitDepth, env, k + 1, next)
          : next \in
              {FixResult(tileRowLimit.hung, done.ret + tileRowLimit.ret,
                         tileRowLimit.paint @@ done.paint, tileRowLimit.caches,
                         done.nodes \cup tileRowLimit.nodes,
                         done.overrun \/ tileRowLimit.overrun,
                         done.children \o <<[at |-> blockDescriptor + done.ret,
                                             ret |-> tileRowLimit.ret]>>,
                         done.maps \cup tileRowLimit.maps,
                         done.tiles \cup tileRowLimit.tiles)
               : tileRowLimit \in
                   {DecodeFix(level, mem, done.caches, blockDescriptor + done.ret,
                              2 * blockColumn + (k % 2), 2 * blockRow + (k \div 2),
                              paletteSource, paletteBitDepth, env)}}}
         : TRUE

\* divoom_image_decode_decode_one_fix(frameData, pixelBuffer, bytesConsumed,
\* frameDelay) up to its malloc: the code it prints, or 0 and the four
\* decode_fix_64 calls on the quadrants (0,0), (1,0), (0,1), (1,1)
DecodeOneFixRun(mem, env) ==
  IF ByteAt(mem, 0, env[1]) # 170
  THEN [err |-> 5278, run |-> FixResult(FALSE, 0, << >>, << >>, {}, FALSE, << >>, {}, {})]
  ELSE IF ByteAt(mem, 5, env[1]) % 128 # 21
  THEN [err |-> 5284, run |-> FixResult(FALSE, 0, << >>, << >>, {}, FALSE, << >>, {}, {})]
  ELSE [err |-> 0,
        run |-> FixChildren(64, mem, 0, 0, 0, FixIdentity, U16At(mem, 6, env[1]), env, 0,
                            FixResult(FALSE, (U16At(mem, 6, env[1]) * 3 + 8) % U16, << >>,
                                      <<<< >>, << >>, << >>, << >>>>, {}, FALSE, << >>,
                                      {}, {}))]

\* The kind 0x15 frames handed to decode_one_fix: a palette of 8 colours and
\* four root nodes out of leaves and splits of every level, among them
\* leaves whose last index is not the size of their bitmap; a frame whose
\* bitmaps leave out entries below the last one they take, at every level,
\* with a bitmap of length byte 0; a frame of one colour with four type 0
\* roots; a frame with another first byte and one of another kind.
FixFrames ==
  LET frame(paletteSize, nodes) ==
        Buffer(Sized(<<Lit(Header(0, 10, 21) \o <<paletteSize, 0>>),
                       PalBytes(paletteSize, 40)>> \o nodes))
      tile == <<Lit(<<0>>), Body(64, 1, 2)>>
      tileOwn == <<Lit(<<130, 3>>), Body(64, 1, 2)>>
      leaf16 == <<Lit(<<2, 3, 3>>), Body(256, 1, 2)>>
      direct16 == <<Lit(<<0>>), Body(256, 2, 3)>>
      split16 == <<Lit(<<1, 3, 3>>)>> \o tile \o tileOwn \o tile \o tile
      leaf32 == <<Lit(<<2, 4, 3>>), Body(1016, 1, 2), Lit(<<128>>)>>
      leaf32Zero == <<Lit(<<2, 4, 15>>), Body(1024, 2, 4)>>
      direct32 == <<Lit(<<0>>), Body(1020, 2, 4), Lit(<<192>>)>>
      split32 == <<Lit(<<1, 4, 7>>)>> \o leaf16 \o direct16 \o split16 \o leaf16
      leaf64 == <<Lit(<<2, 8, 3>>), Body(4088, 1, 2), Lit(<<128>>)>>
      leaf64Zero == <<Lit(<<2, 8, 15>>), Body(4096, 2, 4)>>
      direct64 == <<Lit(<<0>>), Body(4093, 3, 8), Lit(<<224>>)>>
      split64 == <<Lit(<<1, 8, 15>>)>> \o leaf32 \o direct32 \o split32 \o leaf32
      split64Zero == <<Lit(<<1, 8, 15>>)>> \o leaf32 \o leaf32Zero \o split32 \o leaf32
      uniform == <<Lit(<<0>>), Body(4096, 1, 1)>>
      tilePick == <<Lit(<<131, 5>>), Body(64, 1, 2)>>
      leafPick16 == <<Lit(<<2, 3, 5>>), Body(256, 1, 2)>>
      splitPick16 == <<Lit(<<1, 3, 6>>)>> \o tile \o tilePick \o tile \o tile
      splitAll16 == <<Lit(<<1, 0>> \o [t \in 1..32 |-> IF t = 1 THEN 2
                                                      ELSE IF t = 26 THEN 1 ELSE 0])>>
                      \o tile \o tileOwn \o tile \o tile
      leafPick32 == <<Lit(<<2, 4, 10>>), Body(1016, 1, 2), Lit(<<128>>)>>
      splitPick32 == <<Lit(<<1, 4, 13>>)>> \o leafPick16 \o direct16 \o splitPick16
                       \o splitAll16
      splitPick64 == <<Lit(<<1, 8, 90>>)>> \o leafPick32 \o direct32 \o splitPick32
                       \o leaf32
      leafPick64 == <<Lit(<<2, 8, 36>>), Body(4088, 1, 2), Lit(<<128>>)>>
      roots == <<leaf64, leaf64Zero, direct64, split64, split64Zero>>
  IN {frame(8, roots[a] \o roots[b] \o roots[b] \o roots[a]) : a, b \in 1..5}
       \cup {frame(8, splitPick64 \o leafPick64 \o direct64 \o splitPick64),
             frame(1, uniform \o uniform \o uniform \o uniform),
             [frame(8, leaf64 \o leaf64 \o leaf64 \o leaf64)
                EXCEPT !.pieces = WithMagic(@, 171)],
             Buffer(Sized(<<Lit(Header(0, 10, 20) \o <<8, 0>>), PalBytes(8, 40)>>
                            \o leaf64 \o leaf64 \o leaf64 \o leaf64))}

\* a frame handed to decode_one_fix
InitFix ==
  /\ input = NULL
  /\ data \in FixFrames
  /\ len = 0
  /\ cursor = 0
  /\ palCount = 0
  /\ palCap = 0
  /\ palAlloc = FALSE
  /\ palette = << >>
  /\ out = [op |-> "frameData", ret |-> 0, frame |-> -1, pixels |-> NoPixels,
            idxOver |-> FALSE, err |-> 0, paint |-> << >>, bytesConsumed |-> -1,
            frameDelay |-> -1, nodes |-> {}, overrun |-> FALSE, maps |-> {},
            tiles |-> {}]
  /\ hung = FALSE
  /\ nAdd = 0
  /\ nDecode = 0
  /\ frames = 0
  /\ walk = -1

\* decode_one_fix on the frame; bytesConsumed and frameDelay: the pointer
\* is not NULL, mallocOk: malloc(0x820) returned a block
DecodeOneFix(env) ==
  /\ out.op = "frameData"
  /\ \E r \in {DecodeOneFixRun(data, env)}, bytesConsumed \in BOOLEAN, frameDelay \in BOOLEAN,
        mallocOk \in BOOLEAN :
     /\ hung' = (r.err = 0 /\ mallocOk /\ r.run.hung)
     /\ out' = [out EXCEPT
                  !.op = "decode_one_fix",
                  !.err = r.err,
                  !.frameDelay = IF r.err = 0 /\ frameDelay THEN U16At(data, 3, env[1])
                                 ELSE -1,
                  !.ret = IF r.err = 0 /\ mallocOk /\ ~r.run.hung THEN 1 ELSE 0,
                  !.paint = IF mallocOk THEN r.run.paint ELSE << >>,
                  !.nodes = IF mallocOk THEN r.run.nodes ELSE {},
                  !.maps = IF mallocOk THEN r.run.maps ELSE {},
                  !.tiles = IF mallocOk THEN r.run.tiles ELSE {},
                  !.overrun = mallocOk /\ r.run.overrun,
                  !.bytesConsumed = IF r.err = 0 /\ mallocOk /\ ~r.run.hung /\ bytesConsumed
                                    THEN r.run.ret % U16 ELSE -1]
     /\ UNCHANGED <<input, data, len, cursor, palCount, palCap, palAlloc, palette, nAdd,
                    nDecode, frames, walk>>

NextFix ==
  \E pad \in PadBytes, oobBits \in (IF U16At(data, 6, 0) > 256 THEN OobBits ELSE {0}),
     back \in BOOLEAN :
     DecodeOneFix(<<pad, oobBits, back>>)

SpecFix == InitFix /\ [][NextFix]_vars

\* C19: every split node of decode_fix_64, decode_fix_32 and decode_fix_16
\* that returns gives back the bytes of its header, 2 plus one per 8 bits of
\* its bitmap, plus what its four children gave back; its first child
\* starts after the header and every other child where the one before it
\* ended.
C19_SplitCounts ==
  out.op = "decode_one_fix"
  => \A node \in out.nodes :
       /\ node.ret = 2 + ((node.len + 7) \div 8) + node.children[1].ret
                     + node.children[2].ret + node.children[3].ret + node.children[4].ret
       /\ node.children[1].at = node.at + 2 + ((node.len + 7) \div 8)
       /\ \A k \in 1..3 :
            node.children[k + 1].at = node.children[k].at + node.children[k].ret

C19_SplitsAtEveryLevel ==
  /\ out.op = "decode_one_fix"
  /\ out.ret = 1
  /\ {node.level : node \in out.nodes} = {64, 32, 16}

\* C20: decode_one_fix on a kind 0x15 frame returns having written inside the
\* raster of 64 rows of 64 pixels at the start of the output buffer only,
\* and after a frame of one colour whose root nodes are of type 0 every
\* pixel of that raster holds the colour.
C20_OneCanvas ==
  (out.op = "decode_one_fix" /\ out.err = 0 /\ (out.ret = 1 \/ hung))
  => /\ ~hung
     /\ \A pos \in DOMAIN out.paint : pos < 64 * 64
     /\ (U16At(data, 6, 0) = 1 /\ ByteAt(data, 11, 0) = 0)
        => \A pos \in FixWatched :
             pos < 64 * 64 => /\ pos \in DOMAIN out.paint
                               /\ out.paint[pos] = EntryAt(data, 8, 0)

\* ---------------------------------------- the 11x11 multi-picture codec
\* divoom_multipic_encode packs imageCount pictures of 121 pixels (three
\* nibbles each, 0xb6 bytes a picture) behind one palette shared by all of
\* them: the picture count, the palette size, the packed palette, then one
\* record per picture written by divoom_multipic_deocde_one.
\* divoom_multipic_decode unpacks the picture at one position.  The output
\* buffer of the encoder comes from malloc: what is not written holds junk.

MaxImages == 2

\* inputImages: up to MaxImages pictures, each of the colours first,
\* first + 1, ... in runs of run pixels
MultipicInputs == UNION {[1..imageCount -> [first : {0, 1}, colours : {1, 2, 3}, run : {1, 5}]] : imageCount \in 0..MaxImages}

\* The loop that encoder and decoder run over a count: 0xff for 0, else the
\* position of the highest set bit, one more when a lower bit is set too
MultipicBits(count) ==
  IF count = 0 THEN 255
  ELSE LET high == CHOOSE k \in 0..8 : Pow2[k] <= count /\ count < Pow2[k + 1]
       IN IF count = Pow2[high] THEN high ELSE high + 1

\* divoom_multipic_deocde_one(paletteSize1, paletteSize2, paletteData,
\* pixelBuffer, outputBuffer) for paletteSize1 >= 1: the bytes written to
\* outputBuffer, the value returned and the branch taken (layout: one
\* palette entry, bits that index the palette, or a table and bits that
\* index it).  paletteData and pixelBuffer are
\* the bytes from the two pointers on.  The first loop leaves its number of
\* passes in bitsPerIndex1, from which the second loop takes
\* bitsPerIndex1Uint; the direct branch sets each bit of the body from a
\* bit of the output byte it has just masked.
MultipicEncodeOne(paletteSize1, paletteSize2, paletteData, pixelBuffer, junk) ==
  LET passes == (CHOOSE k \in 0..8 : Pow2[k] <= paletteSize1 /\ paletteSize1 < Pow2[k + 1]) + 1
      bitsPerIndex2 == MultipicBits(paletteSize1)
      bitsPerIndex1Uint == MultipicBits(passes)
      BodyBytes(bits) == (bits * 121 + 7) \div 8
      RECURSIVE Masked(_, _, _)
      Masked(currentByte, pos, b) ==
        IF b = 8 \/ pos >= 121 * bitsPerIndex1Uint THEN currentByte
        ELSE LET cleared == currentByte - ((currentByte \div Pow2[b]) % 2) * Pow2[b]
                 bit == (cleared \div Pow2[pos % bitsPerIndex1Uint]) % 2
             IN Masked(cleared + bit * Pow2[b], pos + 1, b + 1)
      length == IF bitsPerIndex1Uint = 8 THEN 0 ELSE BodyBytes(bitsPerIndex1Uint) + 2
      found(p) == {k \in 0..(paletteSize1 - 1) : paletteData[k + 1] = pixelBuffer[p + 1]}
      colorIndex(p) == IF found(p) = {} THEN paletteSize1
                       ELSE CHOOSE k \in found(p) : \A e \in found(p) : k <= e
      Packed(B, b) == LET pos == 8 * B + b
                      IN IF pos \div bitsPerIndex2 < 121
                         THEN (colorIndex(pos \div bitsPerIndex2) \div Pow2[pos % bitsPerIndex2]) % 2
                         ELSE (junk \div Pow2[b]) % 2
      total == (paletteSize1 + 2 + BodyBytes(bitsPerIndex2)) % 256
  IN IF paletteSize1 = 1
     THEN [bytes |-> <<3, 1, paletteData[1]>>, ret |-> 3, layout |-> "single"]
     ELSE IF \/ bitsPerIndex2 = bitsPerIndex1Uint
             \/ BodyBytes(bitsPerIndex1Uint) < paletteSize1 + BodyBytes(bitsPerIndex2)
     THEN [bytes |-> <<length, paletteSize2>>
                       \o [t \in 1..BodyBytes(bitsPerIndex1Uint) |-> Masked(junk, 8 * (t - 1), 0)],
           ret |-> IF length = 0 THEN 123 ELSE length, layout |-> "direct"]
     ELSE [bytes |-> <<total, paletteSize1>>
                       \o [t \in 1..paletteSize1 |-> paletteData[t]]
                       \o [t \in 1..BodyBytes(bitsPerIndex2) |->
                             Packed(t - 1, 0) + 2 * Packed(t - 1, 1) + 4 * Packed(t - 1, 2)
                             + 8 * Packed(t - 1, 3) + 16 * Packed(t - 1, 4)
                             + 32 * Packed(t - 1, 5) + 64 * Packed(t - 1, 6)
                             + 128 * Packed(t - 1, 7)],
           ret |-> total, layout |-> "local"]

\* The first loop of divoom_multipic_encode over all pictures: the palette
\* holds the colours in order of first appearance, pixelIndices the index
\* of every pixel of every picture
MultipicPalette(inputImages) ==
  CHOOSE result \in
    {(CHOOSE r \in
        {[paletteBuffer |-> paletteBuffer,
          pixelIndices |-> [q \in 1..Len(v) |->
                              (CHOOSE c \in 1..Len(paletteBuffer) : paletteBuffer[c] = v[q]) - 1]
                            \o << >>] :
           paletteBuffer \in
             {[c \in 1..Cardinality({q \in 1..Len(v) : \A e \in 1..(q - 1) : v[e] # v[q]}) |->
                 v[CHOOSE q \in 1..Len(v) :
                     /\ \A e \in 1..(q - 1) : v[e] # v[q]
                     /\ Cardinality({d \in 1..(q - 1) : \A e \in 1..(d - 1) : v[e] # v[d]}) = c - 1]]
              \o << >>}} : TRUE) :
       v \in {[q \in 1..(121 * Len(inputImages)) |->
                 PicUnpack(inputImages[((q - 1) \div 121) + 1], (q - 1) % 121)] \o << >>}} : TRUE

\* divoom_multipic_encode(inputImages, imageCount, outputSize): the bytes
\* written to the malloc'ed buffer and *outputSize.  colorMapping has a row
\* of totalPaletteSize bytes per picture with the palette indices the
\* picture uses, colorsUsed of them; the value handed on as paletteSize2
\* and the step of frameColorMap are what byteOffset holds at 4448 and at
\* 4464.  Every record is as long as the value
\* divoom_multipic_deocde_one returns for it, so the records follow one
\* another.  junk is the value of a byte that is not written.
MultipicEncode(inputImages, junk) ==
  LET imageCount == Len(inputImages)
      Records(pal) ==
        LET totalPaletteSize == Len(pal.paletteBuffer)
            Used(f) == {pal.pixelIndices[f * 121 + p] : p \in 1..121}
            colorMapping(i) ==
              LET f == i \div totalPaletteSize
                  j == i % totalPaletteSize
              IN IF i >= 12 * totalPaletteSize THEN junk
                 ELSE IF f < imageCount /\ j < Cardinality(Used(f))
                 THEN CHOOSE x \in Used(f) : Cardinality({y \in Used(f) : y < x}) = j
                 ELSE 0
            colorIndex == (Cardinality(Used(imageCount - 1)) - 1) % 256
            last == totalPaletteSize - 1
            byteOffset == IF last % 2 = 0 THEN last + (last \div 2) + 1
                          ELSE last + (last \div 2)
            packed == PicPaletteBytes(pal.paletteBuffer)
            head == <<imageCount, totalPaletteSize % 256>>
                    \o [t \in 1..Len(packed) |->
                          IF t = Len(packed) /\ totalPaletteSize % 2 = 1
                          THEN packed[t] + 16 * (junk \div 16) ELSE packed[t]]
        IN CHOOSE result \in
             {LET RECURSIVE Joined(_)
                  Joined(f) == IF f > imageCount THEN << >>
                               ELSE ones[f].bytes \o Joined(f + 1)
                  RECURSIVE Sum(_)
                  Sum(f) == IF f > imageCount THEN 0 ELSE ones[f].ret + Sum(f + 1)
              IN [bytes |-> head \o Joined(1),
                  size |-> (((totalPaletteSize * 3 + 1) \div 2) + 2 + Sum(1)) % U16,
                  layouts |-> [f \in 1..imageCount |-> ones[f].layout] \o << >>] :
                ones \in
                  {[f \in 1..imageCount |->
                      MultipicEncodeOne(Cardinality(Used(f - 1)) % 256, colorIndex,
                                        [t \in 1..121 |->
                                           colorMapping((f - 1) * byteOffset + t - 1)],
                                        [p \in 1..121 |-> pal.pixelIndices[(f - 1) * 121 + p]],
                                        junk)] \o << >>}} : TRUE
  IN IF imageCount = 0 THEN [bytes |-> <<0, 0>>, size |-> 2, layouts |-> << >>]
     ELSE CHOOSE result \in {Records(pal) : pal \in {MultipicPalette(inputImages)}} : TRUE

\* The loop of divoom_multipic_decode that passes over frameIndex records
\* from the end of the palette, each by its first byte, 0x7b for 0
RECURSIVE MultipicSkip(_, _, _, _)
MultipicSkip(frameData, bitCursor, frameIndex, junk) ==
  LET at == bitCursor % U16
      first == IF at < Len(frameData) THEN frameData[at + 1] ELSE junk
  IN IF frameIndex = 0 THEN bitCursor
     ELSE MultipicSkip(frameData, bitCursor + (IF first = 0 THEN 123 ELSE first),
                       frameIndex - 1, junk)

\* divoom_multipic_decode(pixelBuffer, frameIndex, frameData): the value
\* returned and the 0x79 colours left in pixelBuffer, fill where nothing is
\* written.  junk is the value of a byte of the buffer past what the
\* encoder wrote.  A record whose count is 1 names one palette entry; a
\* count other than the palette size has a table of its own before the
\* bits; a count equal to the palette size has bits that index the palette,
\* read from the count byte on.
MultipicDecode(frameData, frameIndex, junk, fill) ==
  LET fd(i) == IF i < Len(frameData) THEN frameData[i + 1] ELSE junk
      paletteSize == fd(1)
      bitCursor == MultipicSkip(frameData, ((paletteSize * 3 + 1) \div 2) + 2,
                                frameIndex % 256, junk)
      paletteDataOffset == (bitCursor + 1) % U16
      paletteIndex == fd(paletteDataOffset)
      bitIndex == MultipicBits(paletteIndex)
      Bit(base, pos) == (fd(base + ((pos \div 8) % 256)) \div Pow2[pos % 8]) % 2
      Read(base, p) ==
        LET Set(k) == IF \E j \in 0..(bitIndex - 1) :
                           j % 32 = k /\ Bit(base, p * bitIndex + j) = 1
                      THEN Pow2[k] ELSE 0
        IN Set(0) + Set(1) + Set(2) + Set(3) + Set(4) + Set(5) + Set(6) + Set(7)
      Index(p) == IF paletteIndex = 1 THEN fd(paletteDataOffset + 1)
                  ELSE IF paletteIndex # paletteSize
                  THEN fd(paletteDataOffset + 1 + Read(paletteIndex + paletteDataOffset, p))
                  ELSE Read(paletteDataOffset, p)
      Entry(k) == LET o == 2 + k + (k \div 2)
                  IN IF k % 2 = 0
                     THEN (fd(o) % 16) + 16 * (fd(o) \div 16) + 256 * (fd(o + 1) % 16)
                     ELSE (fd(o) \div 16) + 16 * (fd(o + 1) % 16) + 256 * (fd(o + 1) \div 16)
  IN IF frameIndex % 256 < fd(0)
     THEN [ret |-> 1, pixels |-> [q \in 1..121 |-> Entry(Index(q - 1))] \o << >>]
     ELSE [ret |-> 0, pixels |-> [q \in 1..121 |-> fill]]

InitMultipic ==
  /\ input = NULL
  /\ data = Buffer(<< >>)
  /\ len = 0
  /\ cursor = 0
  /\ palCount = 0
  /\ palCap = 0
  /\ palAlloc = FALSE
  /\ palette = << >>
  /\ \E g \in MultipicInputs :
       LET nib(f, k) ==
             IF k >= 363 THEN 0
             ELSE LET v == PicColour(g[f].first + (((k \div 3) \div g[f].run) % g[f].colours))
                  IN IF k % 3 = 0 THEN v % 16
                     ELSE IF k % 3 = 1 THEN (v \div 16) % 16 ELSE v \div 256
       IN
       out = [op |-> "inputImages", ret |-> 0, frame |-> -1, pixels |-> NoPixels,
              idxOver |-> FALSE, err |-> 0,
              inputImages |-> [f \in 1..Len(g) |->
                                 [t \in 1..182 |->
                                    nib(f, 2 * (t - 1)) + 16 * nib(f, 2 * (t - 1) + 1)]],
              encodedData |-> << >>, outputSize |-> 0, pixelBuffer |-> << >>,
              layouts |-> << >>]
  /\ hung = FALSE
  /\ nAdd = 0
  /\ nDecode = 0
  /\ frames = 0
  /\ walk = -1

DivoomMultipicEncode(junk) ==
  /\ out.op = "inputImages"
  /\ \E r \in {MultipicEncode(out.inputImages, junk)} :
       out' = [out EXCEPT !.op = "divoom_multipic_encode", !.encodedData = r.bytes,
                             !.outputSize = r.size, !.layouts = r.layouts]
  /\ UNCHANGED <<input, data, len, cursor, palCount, palCap, palAlloc, palette, hung, nAdd,
                 nDecode, frames, walk>>

DivoomMultipicDecode(frameIndex, junk, fill) ==
  /\ out.op = "divoom_multipic_encode"
  /\ \E r \in {MultipicDecode(out.encodedData, frameIndex, junk, fill)} :
       out' = [out EXCEPT !.op = "divoom_multipic_decode", !.ret = r.ret,
                             !.frame = frameIndex, !.pixelBuffer = r.pixels]
  /\ UNCHANGED <<input, data, len, cursor, palCount, palCap, palAlloc, palette, hung, nAdd,
                 nDecode, frames, walk>>

NextMultipic ==
  \/ \E junk \in PadBytes : DivoomMultipicEncode(junk)
  \/ \E frameIndex \in 0..MaxImages, junk \in PadBytes, fill \in PicJunk :
       DivoomMultipicDecode(frameIndex, junk, fill)

SpecMultipic == InitMultipic /\ [][NextMultipic]_vars

\* C17: for every sequence of pictures, divoom_multipic_decode at a
\* position below the picture count gives back every pixel of the picture
\* at that position from what divoom_multipic_encode wrote, and the size
\* the encoder reports is where the decoder stands after it has passed
\* over every record from the end of the palette.
C17_MultipicRoundTrip ==
  /\ out.op \in {"divoom_multipic_encode", "divoom_multipic_decode"}
     => out.outputSize = MultipicSkip(out.encodedData,
                                      ((out.encodedData[2] * 3 + 1) \div 2) + 2,
                                      Len(out.inputImages), 0)
  /\ (out.op = "divoom_multipic_decode" /\ out.frame < Len(out.inputImages))
     => /\ out.ret = 1
        /\ \A pixelIndex \in 0..120 :
             out.pixelBuffer[pixelIndex + 1]
               = PicUnpack(out.inputImages[out.frame + 1], pixelIndex)

\* ------------------------------------------------------ the bit-field reader
\* divoom_image_get_dot_info_ex reads an index of bitsPerIndex bits at a bit
\* offset of a bit field; the block decoders carry the same expression
\* inline (ReadIndex).  Here both are applied to the first bytes of a
\* buffer.

InitDot ==
  /\ input = NULL
  /\ \E b0 \in {0, 1, 90, 128, 165, 255}, b1 \in {0, 1, 90, 128, 165, 255} :
       data = Buffer(<<Lit(<<b0, b1, 60>>)>>)
  /\ len = 0
  /\ cursor = 0
  /\ palCount = 0
  /\ palCap = 0
  /\ palAlloc = FALSE
  /\ palette = << >>
  /\ out = [op |-> "bitfieldMap", ret |-> 0, frame |-> -1, bitOffset |-> 0,
            bitsPerIndex |-> 0, inline |-> 0]
  /\ hung = FALSE
  /\ nAdd = 0
  /\ nDecode = 0
  /\ frames = 0
  /\ walk = -1

\* divoom_image_get_dot_info_ex(bitfieldMap, bitOffset, bitsPerIndex) on the
\* buffer, and the inline reader on the same bits
GetDotInfoEx(bitOffset, bitsPerIndex) ==
  LET bitOffsetInByte == bitOffset % 8
      totalBits == bitOffsetInByte + bitsPerIndex
      byte0 == ByteAt(data, bitOffset \div 8, 0)
      byte1 == ByteAt(data, (bitOffset \div 8) + 1, 0)
      value == IF 8 < totalBits
               THEN BitOr(Shl8(Shr8(ShlMask8(byte1, (16 - totalBits) % 32),
                                    (16 - totalBits) % 32),
                               (8 - bitOffsetInByte) % 32),
                          Shr8(byte0, bitOffsetInByte))
               ELSE Shr8(ShlMask8(byte0, (8 - totalBits) % 32),
                         ((8 - totalBits) + bitOffsetInByte) % 32)
  IN /\ out.op = "bitfieldMap"
     /\ out' = [op |-> "get_dot_info_ex", ret |-> value, frame |-> -1,
                bitOffset |-> bitOffset, bitsPerIndex |-> bitsPerIndex,
                inline |-> ReadIndex(data, 0, bitOffset, bitsPerIndex, 0)]
     /\ UNCHANGED <<input, data, len, cursor, palCount, palCap, palAlloc, palette, hung, nAdd,
                    nDecode, frames, walk>>

NextDot == \E bitOffset \in 0..15, bitsPerIndex \in 1..8 : GetDotInfoEx(bitOffset, bitsPerIndex)

SpecDot == InitDot /\ [][NextDot]_vars

\* C21: for every bit offset and every width w in 1..8, both readers return
\* the w bits that start at the offset, the first of them in bit 0: with b
\* the offset within the byte, (byte >> b) mod 2^w when b + w <= 8, and
\* otherwise the 8 - b high bits of the byte with the low w - (8 - b) bits
\* of the next byte above them.
C21_BitsLsbFirst ==
  out.op = "get_dot_info_ex"
  => LET b == out.bitOffset % 8
         w == out.bitsPerIndex
         byte == ByteAt(data, out.bitOffset \div 8, 0)
         next == ByteAt(data, (out.bitOffset \div 8) + 1, 0)
         bits == IF b + w <= 8 THEN (byte \div Pow2[b]) % Pow2[w]
                 ELSE (byte \div Pow2[b]) + (next % Pow2[w - (8 - b)]) * Pow2[8 - b]
     IN out.ret = bits /\ out.inline = bits

\* an index that takes set bits from both bytes has been read
C21_AcrossBytes ==
  /\ out.op = "get_dot_info_ex"
  /\ (out.bitOffset % 8) + out.bitsPerIndex > 8
  /\ out.ret % Pow2[8 - (out.bitOffset % 8)] # 0
  /\ out.ret \div Pow2[8 - (out.bitOffset % 8)] # 0
  /\ out.inline = out.ret

\* A frame of the buffer that pass_review does not stop at: one that does
\* not start with 0xAA or whose kind is 5, 6, 7, 9, 10 or has the high bit
\* set
SkippedAt(c) == MagicAt(c) # 170 \/ KindAt(c) \in {5, 6, 7, 9, 10} \/ KindAt(c) >= 128

\* target is reached from c over skipped frames only, each by its declared
\* length
RECURSIVE PassedOver(_, _)
PassedOver(c, target) ==
  \/ c = target
  \/ /\ c < target
     /\ c < len
     /\ SkippedAt(c)
     /\ DeclaredAt(c) > 0
     /\ PassedOver(c + DeclaredAt(c), target)

\* C22: when pass_review returns, the cursor is at or past the stream
\* length or the frame at the cursor starts with 0xAA and has a kind
\* outside the skipped set (5, 6, 7, 9, 10, high bit set); the cursor got
\* there over skipped frames only, each passed by its declared length,
\* and the palette and its count and capacity are what they were.
C22_PassReviewStops ==
  [][(Called("pass_review") /\ ~hung')
     => /\ cursor' >= len \/ ~SkippedAt(cursor')
        /\ PassedOver(cursor, cursor')
        /\ UNCHANGED <<palCount, palCap, palAlloc, palette, data, len>>]_vars

\* pass_review has gone from the start of the review stream over its
\* frames of kinds 5, 6 and 0x8c to the kind 0x00 frame at offset 32
C22_StoppedAfterThree ==
  /\ out.op = "pass_review"
  /\ ~hung
  /\ input = 7
  /\ nDecode = 0
  /\ cursor = 32
  /\ cursor < len
  /\ KindAt(0) = 5 /\ KindAt(12) = 6 /\ KindAt(21) = 140 /\ KindAt(32) = 0

\* The least number of bits that index a palette of n entries (1 for n <= 2)
MinBits(n) == CHOOSE b \in 1..16 : n <= Pow2[b] /\ (b = 1 \/ n > Pow2[b - 1])

\* The pixel count of an indexed frame kind (low 7 bits), 0 for the others
IndexedPixels(kind) ==
  IF kind \in {0, 1} THEN 256
  ELSE IF kind \in {3, 4} THEN 1024
  ELSE IF kind \in {12, 13, 15, 16} THEN 4096
  ELSE IF kind \in {18, 19, 20} THEN 16384
  ELSE 0

\* The palette entries the frame at c carries: one byte for the 16x16
\* kinds (0 standing for 256 in a kind 0x00 frame), two bytes for the others
CarriedAt(c) ==
  IF KindAt(c) % 128 = 0 THEN (IF ByteAt(data, c + 6, 0) = 0 THEN 256 ELSE ByteAt(data, c + 6, 0))
  ELSE IF KindAt(c) % 128 = 1 THEN ByteAt(data, c + 6, 0)
  ELSE U16At(data, c + 6, 0)

\* C23: a successful decode_pic of an indexed N x N frame advances the
\* cursor by bitstream_offset + ceil(N*N*bits_per_index / 8), with
\* bitstream_offset 7 + 3k for a 16x16 frame and 8 + 3k for a larger one
\* (k the palette entries the frame carries) and bits_per_index that of
\* the palette count after the call, whatever length the frame declares.
C23_CursorAdvance ==
  [][LET kind == KindAt(cursor) % 128
         k == CarriedAt(cursor)
         npix == IndexedPixels(kind)
         offset == (IF kind < 2 THEN 7 ELSE 8) + 3 * k
     IN (Called("decode_pic") /\ cursor < len /\ out'.ret # 0 /\ npix # 0)
        => cursor' = cursor + offset + ((npix * MinBits(palCount') + 7) \div 8)]_vars

\* ---------------------------------------------------------------------------
\* Claims on the layout choice of divoom_pic_encode
\* ---------------------------------------------------------------------------

\* The distinct colours of the picture handed to divoom_pic_encode
PicColours == Cardinality({PicUnpack(out.inputImage, pixelIndex) : pixelIndex \in 0..120})

\* The bytes of a run-length body of the picture with one byte for each run
\* of at most 15 equal pixels
PicRunBytes ==
  LET Pixel(p) == PicUnpack(out.inputImage, p)
      starts == {p \in 0..120 : p = 0 \/ Pixel(p) # Pixel(p - 1)}
      Length(s) == CHOOSE n \in 1..121 : /\ \A p \in s..(s + n - 1) : p \notin starts \ {s}
                                       /\ (s + n = 121 \/ s + n \in starts)
  IN Cardinality({<<s, k>> \in starts \X (0..8) : 15 * k < Length(s)})

\* C24: divoom_pic_encode returns a buffer whose byte 1 is the palette count
\* and whose byte 0 is mode 4 exactly for a picture of one colour, mode 5
\* exactly for a picture of two colours, mode 0 or 1 for 3..16 colours and
\* mode 2 or 3 for more than 16 colours.
C24_ModeByColours ==
  (out.op = "divoom_pic_encode" /\ ~hung)
  => /\ out.encodedData[2] = PicColours % 256
     /\ out.encodedData[1] = 4 <=> PicColours = 1
     /\ out.encodedData[1] = 5 <=> PicColours = 2
     /\ PicColours \in 3..16 => out.encodedData[1] \in {0, 1}
     /\ PicColours > 16 => out.encodedData[1] \in {2, 3}

\* C25: for a picture of 3..16 colours divoom_pic_encode returns a buffer of
\* mode 0 or mode 1, and of mode 1 exactly when the run-length body of the
\* picture is longer than the budget of 0xb6 bytes.
C25_ModeOneByBudget ==
  (out.op = "divoom_pic_encode" /\ PicColours \in 3..16)
  => /\ ~hung
     /\ out.encodedData[1] \in {0, 1}
     /\ out.encodedData[1] = 1 <=> PicRunBytes > 182

\* ---------------------------------------------------------------------------
\* Claims on the fix quadtree
\* ---------------------------------------------------------------------------

\* The entries i < n of parent, in increasing i, whose bit i is set in the
\* bitmap at byte bitmap of the frame
SubPalette(bitmap, n, parent) ==
  LET set == {i \in 0..(n - 1) : (ByteAt(data, bitmap + (i \div 8), 0) \div Pow2[i % 8]) % 2 = 1}
  IN [j \in 1..Cardinality(set) |->
        CacheAt(parent, CHOOSE i \in set : Cardinality({k \in set : k < i}) = j - 1)] \o << >>

\* byte 1 of the node at byte at of the frame, 0 standing for 256
ByteOneLength(at) == IF ByteAt(data, at + 1, 0) = 0 THEN 256 ELSE ByteAt(data, at + 1, 0)

\* the bitmaps read from nodes whose header and bitmap, of 2 + 32 bytes at
\* most, lie inside the frame
MapsInFrame == {m \in out.maps : m.at + 34 <= data.size}

\* the bitmap m was read as one of n bits at byte start of the frame
BitmapReadAs(m, n, start) ==
  /\ m.len = n
  /\ m.bitmap = start
  /\ m.body = start + ((n + 7) \div 8)
  /\ m.local = SubPalette(start, n, m.source)

\* C26 as stated: at every node inside the frame of level 64, 32, 16 and 8 that carries a
\* sub-palette, byte 1 is the bitmap length (0 for 256), the bitmap starts at
\* offset 2 and takes one byte per 8 entries, and the array of the node
\* receives the parent's entries of the set bits in increasing order.
C26_ByteOneEveryLevel ==
  out.op = "decode_one_fix"
  => \A m \in MapsInFrame : BitmapReadAs(m, ByteOneLength(m.at), m.at + 2)

\* C26: at the nodes of level 64, 32 and 16 inside the frame that carry a
\* sub-palette, byte 1
\* is the bitmap length (0 for 256) and the bitmap starts at offset 2; at a
\* node of level 8 the length is the low 7 bits of byte 0 and the bitmap
\* starts at offset 1; the bitmap takes one byte per 8 entries, and the
\* array of the node receives the parent's entries of the set bits in
\* increasing order.
C26_BitmapLayout ==
  out.op = "decode_one_fix"
  => \A m \in MapsInFrame :
       IF m.level = 8 THEN BitmapReadAs(m, ByteAt(data, m.at, 0) % 128, m.at + 1)
       ELSE BitmapReadAs(m, ByteOneLength(m.at), m.at + 2)

C26_PickedAtEveryLevel ==
  /\ out.op = "decode_one_fix"
  /\ out.ret = 1
  /\ \A level \in {64, 32, 16, 8} :
       \E m \in MapsInFrame :
         /\ m.level = level
         /\ m.local # << >>
         /\ m.local # SubSeq(m.source, 1, Len(m.local))
  /\ \E m \in MapsInFrame : m.len = 256 /\ Len(m.local) = 2

\* the calls of one decode_one_fix run whose pixel loops have written
FixLeaves == {t \in out.tiles : t.bands > 0}

\* the calls whose pixel loops have written the pixel at pos: the rows of
\* the bands written, in the columns of the block
FixWrites(pos) ==
  {t \in FixLeaves :
     /\ pos % 128 >= t.blockColumn * t.level
     /\ pos % 128 < (t.blockColumn + 1) * t.level
     /\ pos \div 128 >= t.blockRow * t.level
     /\ pos \div 128 < t.blockRow * t.level + 8 * t.bands}

\* C27: a decode_one_fix call on a kind 0x15 frame returns having written
\* every pixel once: the four children of a split node at block (c, r) are
\* called on the blocks (2c, 2r), (2c+1, 2r), (2c, 2r+1), (2c+1, 2r+1) of
\* half the size, every leaf writes the rows of its own tile, and every
\* pixel of the canvas is written by exactly one leaf.
C27_PaintedOnce ==
  (out.op = "decode_one_fix" /\ out.err = 0 /\ (out.ret = 1 \/ hung))
  => /\ ~hung
     /\ \A node \in out.nodes, k \in 1..4 :
          \E parent \in out.tiles, child \in out.tiles :
            /\ parent.at = node.at
            /\ child.at = node.children[k].at
            /\ child.level = parent.level \div 2
            /\ child.blockColumn = 2 * parent.blockColumn + ((k - 1) % 2)
            /\ child.blockRow = 2 * parent.blockRow + ((k - 1) \div 2)
     /\ \A t \in FixLeaves : t.bands = t.level \div 8
     /\ \A pos \in FixWatched : Cardinality(FixWrites(pos)) = 1

\* ---------------------------------------------------------------------------
\* Claims on raw frames and on get_all_frame_next
\* ---------------------------------------------------------------------------

\* the low 7 bits of the kind byte of the frame at the cursor
LowKind == KindAt(cursor) % 128

\* C28: a decode_pic call that decodes a raw truecolor frame (kind 0x02,
\* 0x0B, 0x0E, 0x11) leaves the handle without a palette; a decode_pic call
\* on a continuation frame (kind 0x01, 0x04, 0x0D, 0x10, 0x13) made while
\* the handle has no palette returns 0 and leaves the cursor and the handle
\* as they are; and a handle without a palette gets one only by a decode_pic
\* call that decodes a frame with a new palette (kind 0x00, 0x03, 0x0C, 0x0F,
\* 0x14).
C28_NoPaletteAfterRaw ==
  [][/\ (Called("decode_pic") /\ cursor < len /\ MagicAt(cursor) = 170
         /\ LowKind \in {2, 11, 14, 17})
        => (out'.ret # 0 /\ ~palAlloc' /\ palette' = << >>)
     /\ (Called("decode_pic") /\ cursor < len /\ ~palAlloc /\ LowKind \in {1, 4, 13, 16, 19})
        => (out'.ret = 0 /\ cursor' = cursor /\ HandleKept)
     /\ (~palAlloc /\ palAlloc')
        => (/\ Called("decode_pic")
            /\ cursor < len
            /\ out'.ret # 0
            /\ LowKind \in {0, 3, 12, 15, 20})]_vars

\* A continuation frame has been rejected after the raw frame before it
C28_RejectedAfterRaw ==
  /\ input \in RawRuns
  /\ out.op = "decode_pic"
  /\ out.ret = 0
  /\ out.frame = cursor
  /\ cursor > 0
  /\ KindAt(cursor) \in {1, 4, 13, 16, 19}
  /\ ~palAlloc
  /\ nDecode >= 2

\* ------------------------------------------------------ get_all_frame_next
\* The handle of get_all_frame_init holds the offset of the next frame
\* (cursor), the stream length (len) and the stream (data); each
\* get_all_frame_next call decodes a group of frames into the buffer of the
\* handle with a decoder handle of its own.

\* The streams handed to get_all_frame_init: 16x16 frames of one delay;
\* delays 10, 10, 20, 20; word-info frames (kind 5 and 9) before and after
\* two pictures; pictures of delay 0; frames that are passed over (kind 6,
\* a kind with the high bit, another first byte, kind 7) between pictures;
\* a passed-over frame of declared length 0; a picture header of delay 0 and
\* declared length 0.  get_all_frame_init is given the length of the stream
\* or that of its first frame.
GroupStreams ==
  << Buffer(Frame16(0, 10, 4, 10, 2, 4) \o Frame16(1, 10, 2, 50, 3, 6)
            \o Frame16(0, 10, 4, 10, 2, 4)),
     Buffer(Frame16(0, 10, 4, 10, 2, 4) \o Frame16(1, 10, 2, 50, 3, 6)
            \o Frame16(0, 20, 4, 10, 2, 4) \o Frame16(0, 20, 4, 10, 2, 4)),
     Buffer(FrameOpaque(5, 0, 30) \o Frame16(0, 10, 4, 10, 2, 4)
            \o FrameW(3, 10, 1024, 2, 20, 1, 2) \o FrameOpaque(9, 10, 8)
            \o Frame16(0, 10, 4, 10, 2, 4)),
     Buffer(Frame16(0, 0, 4, 10, 2, 4) \o Frame16(0, 0, 4, 10, 2, 4)
            \o Frame16(0, 10, 4, 10, 2, 4)),
     Buffer(Frame16(0, 10, 4, 10, 2, 4) \o FrameOpaque(6, 10, 8)
            \o Frame16(128, 10, 4, 10, 2, 4)
            \o WithMagic(Frame16(0, 10, 4, 10, 2, 4), 171)
            \o Frame16(0, 10, 4, 10, 2, 4) \o FrameOpaque(7, 20, 8)),
     Buffer(Frame16(0, 10, 4, 10, 2, 4) \o WithLen(FrameOpaque(10, 10, 8), 0)),
     Buffer(<<Lit(Header(0, 0, 0))>> \o Frame16(0, 10, 4, 10, 2, 4)) >>

\* The loop of get_all_frame_next from the frame at offset, with the palette
\* st of the decoder handle of the call, the frames decoded so far (group:
\* where, the delay, the status byte and the pixels of each; its length mod
\* 256 is the byte at 0x12) and the word-info flag at 0x11.  env: the byte
\* read outside the stream, what decode_pic may observe, and whether
\* malloc(0x50) gave a decoder handle.  hung: the loop does not end, the
\* offset staying where it is.
RECURSIVE GetAllFrameLoop(_, _, _, _, _, _, _)
GetAllFrameLoop(mem, streamLength, offset, st, group, word, env) ==
  LET pad == env[1]
      currentOffset == U16At(mem, offset + 1, pad)
      frameFormatType == ByteAt(mem, offset + 5, pad)
      frameDelay == U16At(mem, offset + 3, pad)
      magic == ByteAt(mem, offset, pad) = 170
      wordInfo == magic /\ frameFormatType \in {5, 9}
      passed == ~magic \/ frameFormatType \in {5, 6, 7, 9, 10} \/ frameFormatType >= 128
      Return(cur, decoded, flag, stuck) ==
        [cursor |-> cur, group |-> decoded, word |-> flag, hung |-> stuck]
      Continue(palette0, decoded, flag) ==
        IF currentOffset = 0 THEN Return(offset, decoded, flag, TRUE)
        ELSE IF offset + currentOffset < streamLength
        THEN GetAllFrameLoop(mem, streamLength, offset + currentOffset, palette0, decoded,
                             flag, env)
        ELSE Return(offset + currentOffset, decoded, flag, FALSE)
  IN IF wordInfo /\ Len(group) % 256 # 0 THEN Return(offset, group, word, FALSE)
     ELSE IF passed THEN Continue(st, group, word \/ (wordInfo /\ currentOffset > 8))
     ELSE IF Len(group) % 256 # 0 /\ frameDelay # group[Len(group)].delay
     THEN Return(offset, group, word, FALSE)
     ELSE CHOOSE result \in
            {LET decoded == Append(group, [at |-> offset, delay |-> frameDelay,
                                           status |-> IF d.r.ok THEN d.size ELSE 0,
                                           pixels |-> d.r.pixels])
             IN IF frameDelay = 0 THEN Return(offset + currentOffset, decoded, word, FALSE)
                ELSE Continue([count |-> d.r.count, cap |-> d.r.cap, alloc |-> d.r.alloc,
                               pal |-> d.r.pal], decoded, word)
             : d \in {IF ~env[6] THEN [size |-> 0, r |-> Failed(st, 6428)]
                      ELSE IF currentOffset = 0 THEN [size |-> 0, r |-> Failed(st, 6434)]
                      ELSE Dispatch(mem, offset, st, pad, env[2], env[3], env[4])}}
            : TRUE

\* a handle that get_all_frame_init has not been called for
InitGroup ==
  /\ input = NULL
  /\ data = Buffer(<< >>)
  /\ len = 0
  /\ cursor = 0
  /\ palCount = 0
  /\ palCap = 0
  /\ palAlloc = FALSE
  /\ palette = << >>
  /\ out = [op |-> "userContext", ret |-> 0, frame |-> -1, group |-> << >>, word |-> FALSE]
  /\ hung = FALSE
  /\ nAdd = 0
  /\ nDecode = 0
  /\ frames = 0
  /\ walk = -1

\* divoom_image_decode_get_all_frame_init(userContext, streamLength) on
\* stream p; mallocOk: malloc(0x5c460) returned a block
GetAllFrameInit(p, streamLength, mallocOk) ==
  /\ nAdd < MaxAddData
  /\ nAdd' = nAdd + 1
  /\ input' = IF mallocOk THEN p ELSE input
  /\ data' = IF mallocOk THEN GroupStreams[p] ELSE data
  /\ len' = IF mallocOk THEN streamLength ELSE len
  /\ cursor' = IF mallocOk THEN 0 ELSE cursor
  /\ out' = [op |-> "get_all_frame_init", ret |-> IF mallocOk THEN 1 ELSE 0, frame |-> -1,
             group |-> << >>, word |-> FALSE]
  /\ UNCHANGED <<palCount, palCap, palAlloc, palette, hung, nDecode, frames, walk>>

\* A call that takes the frame at the cursor and decodes nothing
GetAllFrameNextOne(env) ==
  /\ ~hung
  /\ nDecode < MaxDecode
  /\ nDecode' = nDecode + 1
  /\ IF input # NULL /\ cursor < len
     THEN /\ cursor' = cursor + U16At(data, cursor + 1, env[1])
          /\ out' = [op |-> "get_all_frame_next", ret |-> 1, frame |-> cursor,
                     group |-> << >>, word |-> FALSE]
     ELSE /\ out' = [op |-> "get_all_frame_next", ret |-> 0, frame |-> -1, group |-> << >>,
                     word |-> FALSE]
          /\ UNCHANGED cursor
  /\ UNCHANGED <<input, data, len, palCount, palCap, palAlloc, palette, hung, nAdd, frames,
                 walk>>

\* divoom_image_decode_get_all_frame_next(decoderState): the frame buffer
\* (ret 1) or NULL
GetAllFrameNext(env) ==
  /\ ~hung
  /\ nDecode < MaxDecode
  /\ nDecode' = nDecode + 1
  /\ IF input # NULL /\ cursor < len
     THEN \E r \in {GetAllFrameLoop(data, len, cursor,
                                    [count |-> 0, cap |-> 0, alloc |-> FALSE, pal |-> << >>],
                                    << >>, FALSE, env)} :
            /\ cursor' = r.cursor
            /\ hung' = r.hung
            /\ out' = [op |-> "get_all_frame_next", ret |-> IF r.hung THEN 0 ELSE 1,
                       frame |-> cursor, group |-> r.group, word |-> r.word]
     ELSE /\ out' = [op |-> "get_all_frame_next", ret |-> 0, frame |-> -1, group |-> << >>,
                     word |-> FALSE]
          /\ UNCHANGED <<cursor, hung>>
  /\ UNCHANGED <<input, data, len, palCount, palCap, palAlloc, palette, nAdd, frames, walk>>

NextGroup ==
  \/ \E p \in DOMAIN GroupStreams, whole \in BOOLEAN, mallocOk \in BOOLEAN :
       GetAllFrameInit(p, IF whole THEN GroupStreams[p].size
                          ELSE U16At(GroupStreams[p], 1, 0), mallocOk)
  \/ \E pad \in PadBytes, junk \in JunkColours, oobBits \in OobBits, mallocOk \in BOOLEAN,
        handleOk \in BOOLEAN :
       GetAllFrameNext(<<pad, junk, oobBits, mallocOk, 0, handleOk>>)

SpecGroup == InitGroup /\ [][NextGroup]_vars

\* the frame at offset c is handed to decode_pic by get_all_frame_next
PictureAt(c) == MagicAt(c) = 170 /\ KindAt(c) \notin {5, 6, 7, 9, 10} /\ KindAt(c) < 128

\* the frame at offset c is a word-info frame
WordInfoAt(c) == MagicAt(c) = 170 /\ KindAt(c) \in {5, 9}

\* u16 delay of the frame at offset c
DelayAt(c) == U16At(data, c + 3, 0)

\* the offsets of the frames from c up to target, each found by the declared
\* length of the one before
RECURSIVE FramesFrom(_, _)
FramesFrom(c, target) ==
  IF c >= target THEN << >>
  ELSE IF DeclaredAt(c) = 0 THEN <<c>>
  ELSE <<c>> \o FramesFrom(c + DeclaredAt(c), target)

MultipicColours(f) == Cardinality({PicUnpack(out.inputImages[f], pixelIndex) : pixelIndex \in 0..120})

\* the offset of the record of picture f in encodedData: after the palette
\* and the records before it, each as long as its first byte says
MultipicRecordAt(f) ==
  MultipicSkip(out.encodedData, ((out.encodedData[2] * 3 + 1) \div 2) + 2, f - 1, 0)

\* the layout divoom_multipic_decode reads a record of count byte p with
MultipicRead(p) ==
  IF p = 1 THEN "single" ELSE IF p # out.encodedData[2] THEN "local" ELSE "direct"

\* C30: in what divoom_multipic_encode has written, a record has a table of
\* its own only if the colours of its picture are neither 1 nor as many as
\* the palette holds, the count byte of a record whose bits index the
\* palette is the palette size, and divoom_multipic_decode reads every
\* record with the layout it was written with.
C30_LayoutsAgree ==
  out.op = "divoom_multipic_encode"
  => \A f \in 1..Len(out.inputImages) :
       /\ out.layouts[f] = "local" => MultipicColours(f) \notin {1, out.encodedData[2]}
       /\ out.layouts[f] = "direct"
          => out.encodedData[MultipicRecordAt(f) + 2] = out.encodedData[2]
       /\ MultipicRead(out.encodedData[MultipicRecordAt(f) + 2]) = out.layouts[f]

====
